---- MODULE Spec2Model ----
(***************************************************************************)
(* AutoFire: the multi-slot trigger-loop engine of src/autofire.py         *)
(* (class AutoFireApp) as a state machine.                                 *)
(*                                                                         *)
(* Caller threads (backend callback threads, the config watcher, the UI /  *)
(* main thread) execute the handlers of AutoFireApp step by step; the      *)
(* steps are cut where the code acquires or releases self._lock, joins a   *)
(* worker, or calls the backend outside the lock.  Every armed slot owns a *)
(* loop thread executing AutoFireApp._loop.  The keyboard backend is the   *)
(* environment: its answers (is_pressed, refusal of a hook, failure of     *)
(* block_key or press_and_release, expiry of the bounded join) are chosen  *)
(* nondeterministically.                                                   *)
(***************************************************************************)
EXTENDS Integers, Sequences, FiniteSets, TLC

\* ------------------------------------------------------------------------
\* Bounds of the model
\* ------------------------------------------------------------------------
MaxArm == 3
MaxOps == 4
MaxCtl == 1
MaxFaults == 1

\* ------------------------------------------------------------------------
\* Program constants
\* ------------------------------------------------------------------------
MIN_INTERVAL_MS == 1
MAX_INTERVAL_MS == 1000

Keys == {"e", "x"}
Threads == {1, 2}
WorkerIds == 1..MaxArm
NoWorker == 0

\* ------------------------------------------------------------------------
\* Slots and configs (AutoFireSlot, AutoFireConfig)
\* ------------------------------------------------------------------------
AutoFireSlot(t, o, i, p, en) ==
    [trigger_key |-> t, output_key |-> o, interval_ms |-> i,
     pass_through |-> p, enabled |-> en]

DefaultSlot == AutoFireSlot("e", "r", 50, FALSE, TRUE)

\* The configs of the model: the default one, one with two enabled
\* suppressing slots, one with a pass-through slot and a disabled slot.
CfgA == << DefaultSlot >>
CfgAB == << AutoFireSlot("e", "r", 50, FALSE, TRUE),
            AutoFireSlot("x", "z", 25, FALSE, TRUE) >>
CfgB == << AutoFireSlot("x", "z", 25, TRUE, TRUE),
           AutoFireSlot("e", "r", 50, FALSE, FALSE) >>

\* Two enabled slots that share the trigger key "e".
CfgDup == << AutoFireSlot("e", "r", 50, FALSE, TRUE),
             AutoFireSlot("e", "z", 25, FALSE, TRUE) >>

Configs == {CfgA, CfgAB, CfgB, CfgDup}

\* ------------------------------------------------------------------------
\* Validation (_normalize_key, _coerce_bool, validate_slot, validate_config,
\* load_config).  Raw key names are sequences of characters; a key name
\* that fails normalisation (ValueError) is the value Invalid.
\* ------------------------------------------------------------------------
Invalid == "ValueError"

Lower(c) == CASE c = "E" -> "e" [] c = "X" -> "x" [] c = "R" -> "r"
              [] c = "Z" -> "z" [] OTHER -> c

RECURSIVE LStrip(_)
LStrip(s) == IF s # << >> /\ Head(s) = " " THEN LStrip(Tail(s)) ELSE s

RECURSIVE RStrip(_)
RStrip(s) == IF s # << >> /\ s[Len(s)] = " "
             THEN RStrip(SubSeq(s, 1, Len(s) - 1)) ELSE s

\* keyboard.key_to_scan_codes: the key names the backend can map.
KnownKeyNames == { <<"e">>, <<"x">>, <<"r">>, <<"z">> }

_normalize_key(name) ==
    LET key == [i \in 1..Len(RStrip(LStrip(name))) |->
                   Lower(RStrip(LStrip(name))[i])]
    IN  IF key = << >> THEN Invalid
        ELSE IF key \notin KnownKeyNames THEN Invalid
        ELSE key[1]

DigitVal(c) == CASE c = "0" -> 0 [] c = "1" -> 1 [] c = "2" -> 2
                 [] c = "5" -> 5 [] OTHER -> -1

RECURSIVE ParseDigits(_, _)
ParseDigits(s, acc) ==
    IF s = << >> THEN acc
    ELSE IF DigitVal(Head(s)) < 0 THEN -1
    ELSE ParseDigits(Tail(s), acc * 10 + DigitVal(Head(s)))

\* int(value): raw values are tagged <<"int", n>>, <<"str", digits>>,
\* <<"none">>; ok = FALSE stands for TypeError / ValueError.
ToInt(raw) ==
    CASE raw[1] = "int" -> [ok |-> TRUE, v |-> raw[2]]
      [] raw[1] = "str" ->
           IF raw[2] = << >> \/ ParseDigits(raw[2], 0) < 0
           THEN [ok |-> FALSE, v |-> 0]
           ELSE [ok |-> TRUE, v |-> ParseDigits(raw[2], 0)]
      [] OTHER -> [ok |-> FALSE, v |-> 0]

\* Raw booleans are tagged <<"bool", b>>, <<"int", n>>, <<"str", s>> (s is
\* the text after strip().lower()).
_coerce_bool(value) ==
    CASE value[1] = "bool" -> value[2]
      [] value[1] = "int" -> value[2] # 0
      [] OTHER -> value[2] \in {"1", "true", "yes", "on"}

\* A validation result is [ok, value]; ok = FALSE stands for ValueError.
Fail == [ok |-> FALSE, value |-> << >>]
Ok(v) == [ok |-> TRUE, value |-> v]

\* validate_slot without the test of the interval range.
validate_slot_unchecked(m) ==
    LET trigger == _normalize_key(m.triggerKey)
        output == _normalize_key(m.outputKey)
        interval == ToInt(m.intervalMs)
    IN  IF trigger = Invalid \/ output = Invalid THEN Fail
        ELSE IF ~interval.ok THEN Fail
        ELSE Ok(AutoFireSlot(trigger, output, interval.v,
                             _coerce_bool(m.passThrough), _coerce_bool(m.enabled)))

validate_slot(m) ==
    LET trigger == _normalize_key(m.triggerKey)
        output == _normalize_key(m.outputKey)
        interval == ToInt(m.intervalMs)
    IN  IF trigger = Invalid \/ output = Invalid THEN Fail
        ELSE IF ~interval.ok THEN Fail
        ELSE IF ~(MIN_INTERVAL_MS <= interval.v /\ interval.v <= MAX_INTERVAL_MS)
             THEN Fail
        ELSE Ok(AutoFireSlot(trigger, output, interval.v,
                             _coerce_bool(m.passThrough), _coerce_bool(m.enabled)))

RawSlot(t, o, i, p, en) ==
    [mapping |-> TRUE, triggerKey |-> t, outputKey |-> o, intervalMs |-> i,
     passThrough |-> p, enabled |-> en]

\* A slot list item that is not a mapping.
Scalar == [mapping |-> FALSE]

\* validate_config that keeps the valid slots of a list and drops the
\* others.
validate_config_partial(doc) ==
    IF doc.kind = "legacy"
    THEN LET s == validate_slot(doc.slots[1])
         IN  IF ~s.ok THEN Fail ELSE Ok(<< s.value >>)
    ELSE IF doc.kind = "slots_not_list" THEN Fail
    ELSE IF doc.slots = << >> THEN Ok(<< DefaultSlot >>)
    ELSE LET good == SelectSeq(doc.slots,
                        LAMBDA m : m.mapping /\ validate_slot(m).ok)
         IN  IF good = << >> THEN Fail
             ELSE Ok([i \in 1..Len(good) |-> validate_slot(good[i]).value])

\* A document is [kind, slots]: kind "legacy" carries one slot mapping at
\* the root, kind "slots" a list whose items are slot mappings or the
\* non-mapping value Scalar.
validate_config(doc) ==
    IF doc.kind = "legacy"
    THEN LET s == validate_slot(doc.slots[1])
         IN  IF ~s.ok THEN Fail ELSE Ok(<< s.value >>)
    ELSE IF doc.kind = "slots_not_list" THEN Fail
    ELSE IF doc.slots = << >> THEN Ok(<< DefaultSlot >>)
    ELSE IF \E i \in 1..Len(doc.slots) : ~doc.slots[i].mapping THEN Fail
    ELSE IF \E i \in 1..Len(doc.slots) : ~validate_slot(doc.slots[i]).ok
         THEN Fail
    ELSE Ok([i \in 1..Len(doc.slots) |-> validate_slot(doc.slots[i]).value])

load_config(doc) ==
    IF doc.kind = "missing" THEN Ok(<< DefaultSlot >>)
    ELSE IF doc.kind \in {"bad_json", "unreadable", "not_mapping"} THEN Fail
    ELSE validate_config(doc)

Doc(kind, slots) == [kind |-> kind, slots |-> slots]

\* Contents of the config file that are no valid config: broken JSON, a
\* root or a slot list of the wrong type, a slot that is no mapping, an
\* interval out of range or not a number, a key the backend cannot map.
InvalidDocs ==
    { Doc("bad_json", << >>),
      Doc("not_mapping", << >>),
      Doc("slots_not_list", << >>),
      Doc("slots", << Scalar >>),
      Doc("legacy", << RawSlot(<<"e">>, <<"r">>, <<"int", 2000>>, <<"bool", FALSE>>, <<"bool", TRUE>>) >>),
      Doc("legacy", << RawSlot(<<"e">>, <<"r">>, <<"int", 0>>, <<"bool", FALSE>>, <<"bool", TRUE>>) >>),
      Doc("legacy", << RawSlot(<<"i", "n", "v">>, <<"r">>, <<"int", 50>>, <<"bool", FALSE>>, <<"bool", TRUE>>) >>),
      Doc("legacy", << RawSlot(<<" ">>, <<"r">>, <<"int", 50>>, <<"bool", FALSE>>, <<"bool", TRUE>>) >>),
      Doc("legacy", << RawSlot(<<"e">>, <<"r">>, <<"str", <<"a">> >>, <<"bool", FALSE>>, <<"bool", TRUE>>) >>),
      Doc("slots", << RawSlot(<<"x">>, <<"z">>, <<"int", 25>>, <<"bool", FALSE>>, <<"bool", TRUE>>),
                      RawSlot(<<"e">>, <<"r">>, <<"none">>, <<"bool", FALSE>>, <<"bool", TRUE>>) >>) }

\* Contents that are a valid config (a missing file stands for the
\* default one).
ValidDocs ==
    { Doc("missing", << >>),
      Doc("slots", << RawSlot(<<" ", "X">>, <<"Z", " ">>, <<"str", <<"2", "5">> >>, <<"str", "yes">>, <<"str", "on">>),
                      RawSlot(<<"E">>, <<"r">>, <<"int", 50>>, <<"int", 0>>, <<"str", "off">>) >>),
      Doc("slots", << RawSlot(<<"e">>, <<"r">>, <<"int", 50>>, <<"bool", FALSE>>, <<"bool", TRUE>>),
                      RawSlot(<<"x">>, <<"z">>, <<"int", 25>>, <<"str", "no">>, <<"int", 1>>) >>) }

\* Contents the config file can have when reload_config reads it.
RawDocs == InvalidDocs \cup ValidDocs

\* ------------------------------------------------------------------------
\* State
\* ------------------------------------------------------------------------
VARIABLES
    life,             \* "constructed", "starting", "started", "start_failed"
    shut,             \* shutdown has been called
    config,           \* self.config
    slot_workers,     \* self._slot_workers, an insertion-ordered dict
    workers,          \* the loop threads ever spawned, with their events
    nArmed,           \* number of loop threads spawned so far
    lockOwner,        \* holder of self._lock, or NoThread
    press_handles,    \* keys of self._press_handles
    release_handles,  \* keys of self._release_handles
    emergency_handle, \* self._emergency_handle is not None
    hooksPress,       \* backend: number of press hooks installed per key
    hooksRelease,     \* backend: number of release hooks installed per key
    hotkeys,          \* backend: number of emergency hotkeys installed
    blockCalls,       \* backend: block_key calls per key
    blockOk,          \* backend: block_key calls per key that succeeded
    unblockCalls,     \* backend: unblock_key calls per key
    thr,              \* the caller threads: operation, position, locals
    lastRet,          \* outcome of the last apply_binding / reload_config
    nOps,             \* number of operations dispatched so far
    nCtl,             \* number of those that were control operations
    nFaults,          \* number of hook or block_key calls that failed so far
    inOrder           \* every callback took the lock before the next event
                      \* of its key was delivered

\* ------------------------------------------------------------------------
\* AutoFireBindingRegistry and AutoFireBindingRunner
\* (src/core/bindings_autofire.py).  The registry runs against the same
\* backend; it takes no lock.  Thread UiThread calls register, clear and
\* apply_bindings one after the other; the backend invokes on_press,
\* on_release and stop_all on the callback threads.
\* ------------------------------------------------------------------------
MaxUi == 3
MaxCb == 3
MaxCalls == 4
MaxRunners == 2
MaxLoops == 2

UiThread == 0
CbThreads == {1, 2}
Callers == {UiThread} \cup CbThreads
RunnerIds == 1..MaxRunners
LoopIds == 1..MaxLoops
NoRunner == 0

AutoFireBinding(id, t, o, i, p) ==
    [id |-> id, trigger_key |-> t, output_key |-> o, interval_ms |-> i,
     pass_through_trigger |-> p]

\* Two bindings with different ids for trigger "e", one for trigger "x".
BindE == AutoFireBinding("b1", "e", "r", 50, FALSE)
BindE2 == AutoFireBinding("b2", "e", "z", 20, FALSE)
BindX == AutoFireBinding("b3", "x", "z", 25, TRUE)
Bindings == {BindE, BindE2, BindX}

\* The binding dicts given to apply_bindings, in iteration order.
BindingSets == { << >>, << BindE >>, << BindE, BindE2 >>, << BindX, BindE >> }

NoBinding == AutoFireBinding("", "", "", 0, FALSE)

\* AutoFireBindingRunner.__init__ for a binding.
NewRunner(b) ==
    [trigger_key |-> b.trigger_key, output_key |-> b.output_key,
     pass_through_trigger |-> b.pass_through_trigger,
     running |-> FALSE, stop_request |-> FALSE, blocked |-> FALSE]

NoRunnerYet == NewRunner(NoBinding)

\* A loop thread of a runner: pc is "unborn", "top" (about to test the
\* stop request), "body" (inside an iteration), "fin" (entering finally),
\* "fin_unset" (after unblock_key, before _blocked = False) or "dead".
UnbornLoop == [runner |-> NoRunner, pc |-> "unborn"]

\* A call on a thread: its operation, its position, the runner it works
\* on, the runners it still has to stop, the bindings it still has to
\* register, and whether the emergency hotkey was bound when it began.
IdleCall ==
    [op |-> "", pc |-> "idle", runner |-> NoRunner, todo |-> << >>,
     bindings |-> << >>, hadHotkey |-> FALSE]

\* The last register call: its binding and how it ended ("registered",
\* "returned" for the early return, "ValueError").
NoResult == [op |-> "", binding |-> NoBinding, res |-> ""]

VARIABLES
    _handles,              \* self._handles, an insertion-ordered dict
    _emergency_hotkey_id,  \* self._emergency_hotkey_id is not None
    runners,               \* the AutoFireBindingRunner objects created
    loops,                 \* the loop threads started by the runners
    calls,                 \* the calls running on the threads
    onPress,               \* backend: runners whose on_press hook is installed
    onRelease,             \* backend: runners whose on_release hook is installed
    regRet,                \* outcome of the last register call
    nUi,                   \* number of calls made on UiThread so far
    nCb,                   \* number of callbacks dispatched so far
    nRunners,              \* number of runners stored so far
    nLoops                 \* number of loop threads started so far

RegistryVars == << _handles, _emergency_hotkey_id, runners, loops, calls,
                   onPress, onRelease, regRet, nUi, nCb, nRunners, nLoops >>

RegistryInit ==
    /\ _handles = << >>
    /\ _emergency_hotkey_id = FALSE
    /\ runners = [r \in RunnerIds |-> NoRunnerYet]
    /\ loops = [l \in LoopIds |-> UnbornLoop]
    /\ calls = [c \in Callers |-> IdleCall]
    /\ onPress = {}
    /\ onRelease = {}
    /\ regRet = NoResult
    /\ nUi = 0
    /\ nCb = 0
    /\ nRunners = 0
    /\ nLoops = 0

\* ------------------------------------------------------------------------
\* The timing of AutoFireApp._loop (src/autofire.py 408-433), in whole
\* milliseconds: one loop thread of a slot with interval tInterval whose
\* trigger is held for holdMs.  sleep advances the clock by exactly the
\* time asked for; a stall advances it by any amount at any point.
\* ------------------------------------------------------------------------
MaxHold == 12
MaxStall == 8
MaxStalls == 2
MaxPulses == 16

Intervals == {1, 2, 3, 5}
Holds == 0..MaxHold

VARIABLES
    tInterval,    \* slot.interval_ms
    holdMs,       \* the time at which is_pressed(trigger) turns false
    tNow,         \* self._now()
    next_tick,    \* next_tick
    now_value,    \* now_value, read once per iteration
    tPc,          \* "top", "sleep" or "done"
    pulses,       \* press_and_release calls made so far
    burst,        \* pulses made since the last positive sleep
    nStalls       \* number of stalls so far

TimingVars == << tInterval, holdMs, tNow, next_tick, now_value, tPc, pulses,
                 burst, nStalls >>

\* The loop thread as it enters _loop at time 0: next_tick = self._now()
TimingInit(I, D) ==
    /\ tInterval = I
    /\ holdMs = D
    /\ tNow = 0
    /\ next_tick = 0
    /\ now_value = 0
    /\ tPc = "top"
    /\ pulses = 0
    /\ burst = 0
    /\ nStalls = 0

\* ------------------------------------------------------------------------
\* AutoFireEngine (src/autofire_ui.py): the engine of the UI, bound to
\* slots for the trigger keys of Keys.  _set_slot_active and the test at
\* the top of _autofire_loop run under self._lock, so each is one step.
\* ------------------------------------------------------------------------
MaxEngineLoops == 3
MaxEngineEvents == 5

EngineLoopIds == 1..MaxEngineLoops
NoEngineLoop == 0

\* A thread running _autofire_loop for a trigger key: pc is "unborn",
\* "check" (about to test the slot state), "emit" (sending the key),
\* "sleep" (in time.sleep(interval_sec)) or "dead".
UnbornEngineLoop == [key |-> "", pc |-> "unborn"]

VARIABLES
    _is_running,       \* self._is_running
    _slot_states,      \* self._slot_states: "none" (no item), "off", "on"
    _slot_threads,     \* self._slot_threads: loop id per key, or NoEngineLoop
    engineHooked,      \* backend: the press/release hooks of the engine are installed
    engineLoops,       \* the threads started for _autofire_loop
    nEngineLoops,      \* number of loop threads started so far
    nEngineEvents      \* number of calls and callbacks so far

EngineVars == << _is_running, _slot_states, _slot_threads, engineHooked,
                 engineLoops, nEngineLoops, nEngineEvents >>

\* AutoFireEngine.__init__
EngineInit ==
    /\ _is_running = FALSE
    /\ _slot_states = [k \in Keys |-> "none"]
    /\ _slot_threads = [k \in Keys |-> NoEngineLoop]
    /\ engineHooked = FALSE
    /\ engineLoops = [l \in EngineLoopIds |-> UnbornEngineLoop]
    /\ nEngineLoops = 0
    /\ nEngineEvents = 0

vars == << life, shut, config, slot_workers, workers, nArmed, lockOwner,
           press_handles, release_handles, emergency_handle, hooksPress,
           hooksRelease, hotkeys, blockCalls, blockOk, unblockCalls, thr,
           lastRet, nOps, nCtl, nFaults, inOrder, RegistryVars,
           TimingVars, EngineVars >>

NoThread == 0

\* A loop thread: pc is "unborn", "top" (about to test the stop flag),
\* "body" (inside an iteration) or "dead".  stop and running are the two
\* events of its entry; stoppedBy names the operation that stopped it,
\* once that operation has returned; late says that it emitted a pulse
\* after that return.
UnbornWorker ==
    [key |-> "", output |-> "", pc |-> "unborn", stop |-> FALSE,
     running |-> FALSE, stoppedBy |-> "", late |-> FALSE]

\* later is the kind of the last press or release event the backend
\* delivered for the same key after this callback; doneKeys are the keys
\* the operation has called stop_loop for.
IdleThread ==
    [op |-> "", pc |-> "idle", key |-> "", w |-> NoWorker,
     blocked |-> FALSE, timedOut |-> FALSE, todo |-> << >>, stopped |-> {},
     doneKeys |-> {}, prev |-> << >>, new |-> << >>, phase |-> "",
     slots |-> << >>, idx |-> 0, slot |-> DefaultSlot, regFailed |-> FALSE,
     later |-> ""]

\* why tells the results apart: "invalid" (load_config failed), "noop"
\* (the config equals the active one), "apply" (apply_binding ran).
NoRet == [op |-> "", res |-> "", why |-> ""]

\* self._slot_workers as an ordered dict of entries
\* (slot, worker, stop_signal, running, blocked); the two events live in
\* the worker record.
Has(sw, k) == \E i \in DOMAIN sw : sw[i].key = k
Get(sw, k) == sw[CHOOSE i \in DOMAIN sw : sw[i].key = k]
Put(sw, e) ==
    IF Has(sw, e.key)
    THEN [i \in DOMAIN sw |-> IF sw[i].key = e.key THEN e ELSE sw[i]]
    ELSE Append(sw, e)
\* A removal that empties the whole map.
DelAll(sw, k) == << >>

\* del self._slot_workers[trigger_key]
Del(sw, k) == SelectSeq(sw, LAMBDA e : e.key # k)
KeysOf(sw) == [i \in DOMAIN sw |-> sw[i].key]

LockFree(t) == lockOwner \in {NoThread, t}

Alive(w) == workers[w].pc \in {"top", "body"}

\* The loop threads, once the operation that stopped the set ws returned.
MarkStopped(ws, op) ==
    [w \in WorkerIds |->
        IF w \in ws /\ workers[w].stoppedBy = "" /\ Alive(w)
        THEN [workers[w] EXCEPT !.stoppedBy = op] ELSE workers[w]]

AppInit ==
    /\ life = "constructed"
    /\ shut = FALSE
    /\ config \in Configs
    /\ slot_workers = << >>
    /\ workers = [w \in WorkerIds |-> UnbornWorker]
    /\ nArmed = 0
    /\ lockOwner = NoThread
    /\ press_handles = {}
    /\ release_handles = {}
    /\ emergency_handle = FALSE
    /\ hooksPress = [k \in Keys |-> 0]
    /\ hooksRelease = [k \in Keys |-> 0]
    /\ hotkeys = 0
    /\ blockCalls = [k \in Keys |-> 0]
    /\ blockOk = [k \in Keys |-> 0]
    /\ unblockCalls = [k \in Keys |-> 0]
    /\ thr = [t \in Threads |-> IdleThread]
    /\ lastRet = NoRet
    /\ nOps = 0
    /\ nCtl = 0
    /\ nFaults = 0
    /\ inOrder = TRUE

Init ==
    /\ AppInit
    /\ RegistryInit
    /\ TimingInit(DefaultSlot.interval_ms, 0)
    /\ EngineInit

\* Operations are dispatched to the first idle caller thread (the threads
\* are interchangeable).  A run holds at most MaxOps calls, a control
\* operation counting for two.
CanDispatch(t) ==
    /\ thr[t].pc = "idle"
    /\ \A u \in Threads : thr[u].pc = "idle" => u >= t
    /\ nOps + nCtl < MaxOps

\* Control operations: emergency_stop, apply_binding, reload_config, shutdown.
CanControl(t) == CanDispatch(t) /\ nCtl < MaxCtl /\ nOps + nCtl + 1 < MaxOps

Faults(failed) == IF failed THEN nFaults + 1 ELSE nFaults
MayFail == nFaults < MaxFaults

AppVars == << life, shut, config >>
BackendVars == << hooksPress, hooksRelease, hotkeys >>
BlockVars == << blockCalls, blockOk, unblockCalls >>
HandleVars == << press_handles, release_handles, emergency_handle >>
CountVars == << nOps, nCtl, nFaults, inOrder >>

\* ------------------------------------------------------------------------
\* The loop thread: AutoFireApp._loop
\* ------------------------------------------------------------------------
\* finally: stop_signal.set(); running.clear()
LoopFinally(wr) ==
    [UnbornWorker EXCEPT !.pc = "dead", !.stop = TRUE, !.running = FALSE,
                         !.stoppedBy = IF wr.late THEN wr.stoppedBy ELSE "",
                         !.late = wr.late]

\* A loop that never looks at its stop flag.
StopIsSetNever(wr) == FALSE

\* stop_signal.is_set()
StopIsSet(wr) == wr.stop

\* while not stop_signal.is_set()
LoopTop(w) ==
    /\ workers[w].pc = "top"
    /\ workers' = [workers EXCEPT ![w] =
          IF StopIsSet(workers[w]) THEN LoopFinally(workers[w])
          ELSE [workers[w] EXCEPT !.pc = "body"]]
    /\ UNCHANGED << AppVars, slot_workers, nArmed, lockOwner, HandleVars,
                    BackendVars, BlockVars, thr, lastRet, CountVars >>

\* One iteration: is_pressed, then a pulse when the tick is due, then sleep.
\* outcome: "released" (is_pressed false or raising), "wait" (tick not due),
\* "emit" (press_and_release succeeded), "emit_failed".
LoopBodyResult(wr, outcome) ==
    CASE outcome \in {"released", "emit_failed"} -> LoopFinally(wr)
      [] outcome = "emit" ->
            [wr EXCEPT !.pc = "top", !.late = @ \/ wr.stoppedBy # ""]
      [] OTHER -> [wr EXCEPT !.pc = "top"]

LoopBody(w) ==
    /\ workers[w].pc = "body"
    /\ \E outcome \in {"released", "wait", "emit", "emit_failed"} :
          workers' = [workers EXCEPT ![w] = LoopBodyResult(workers[w], outcome)]
    /\ UNCHANGED << AppVars, slot_workers, nArmed, lockOwner, HandleVars,
                    BackendVars, BlockVars, thr, lastRet, CountVars >>

\* ------------------------------------------------------------------------
\* Press: _handle_press and start_loop
\* ------------------------------------------------------------------------
\* The caller threads once the backend has invoked, on thread t, the
\* press or release hook of key k; the callbacks of k still running
\* learn that a later event was delivered.
Delivered(t, k, kind, pc) ==
    [u \in Threads |->
        IF u = t
        THEN [IdleThread EXCEPT !.op = kind, !.pc = pc, !.key = k]
        ELSE IF thr[u].op \in {"press", "release"} /\ thr[u].key = k
        THEN [thr[u] EXCEPT !.later = kind]
        ELSE thr[u]]

\* No callback of key k is still waiting to take the lock for the first
\* time.
Begun(k) ==
    \A u \in Threads :
        ~(/\ thr[u].op \in {"press", "release"} /\ thr[u].key = k
          /\ thr[u].pc \in {"hp_lock", "st_lock"})

\* Number of press callbacks dispatched and not yet returned.
PendingPress == Cardinality({t \in Threads : thr[t].op = "press"})

\* The backend invokes the press hook of key k on thread t.
DeliverPress(t, k) ==
    /\ CanDispatch(t)
    /\ nArmed + PendingPress < MaxArm
    /\ hooksPress[k] > 0
    /\ thr' = Delivered(t, k, "press", "hp_lock")
    /\ nOps' = nOps + 1
    /\ inOrder' = (inOrder /\ Begun(k))
    /\ UNCHANGED << AppVars, slot_workers, workers, nArmed, lockOwner,
                    HandleVars, BackendVars, BlockVars, lastRet, nCtl, nFaults >>

\* The search for a slot of a trigger key that forgets to test enabled.
FindSlotAnyState(cfg, k) ==
    LET hits == {i \in DOMAIN cfg : cfg[i].trigger_key = k}
    IN  IF hits = {} THEN 0
        ELSE CHOOSE i \in hits : \A j \in hits : i <= j

\* start_loop's search for the enabled slot of a trigger key: the index
\* of the first one, 0 if there is none.
FindSlot(cfg, k) ==
    LET hits == {i \in DOMAIN cfg : cfg[i].enabled /\ cfg[i].trigger_key = k}
    IN  IF hits = {} THEN 0
        ELSE CHOOSE i \in hits : \A j \in hits : i <= j

\* A test of the armed state that always finds the key idle.
IsArmedNever(k) == FALSE

\* The armed test shared by _handle_press and start_loop.
IsArmed(k) ==
    Has(slot_workers, k) /\ workers[Get(slot_workers, k).worker].running

\* _handle_press takes the lock and tests the armed state; start_loop,
\* re-entering the lock, tests it again and looks the slot up.
PressBegin(t) ==
    /\ thr[t].pc = "hp_lock"
    /\ LockFree(t)
    /\ LET k == thr[t].key
           i == FindSlot(config, k)
       IN  IF IsArmed(k) \/ i = 0
           THEN /\ thr' = [thr EXCEPT ![t] = IdleThread]
                /\ UNCHANGED lockOwner
           ELSE /\ thr' = [thr EXCEPT ![t].pc = "sl_arm", ![t].slot = config[i]]
                /\ lockOwner' = t
    /\ UNCHANGED << AppVars, slot_workers, workers, nArmed, HandleVars,
                    BackendVars, BlockVars, lastRet, CountVars >>

\* An entry that takes the key for blocked whenever blocking was asked for.
NewEntryAssumed(slot, w, blockSucceeds) ==
    [key |-> slot.trigger_key, slot |-> slot, worker |-> w,
     blocked |-> ~slot.pass_through]

\* An entry whose blocked flag forgets pass_through.
NewEntryBlocking(slot, w, blockSucceeds) ==
    [key |-> slot.trigger_key, slot |-> slot, worker |-> w,
     blocked |-> blockSucceeds]

\* The entry start_loop stores for the slot, given block_key's outcome.
NewEntry(slot, w, blockSucceeds) ==
    [key |-> slot.trigger_key, slot |-> slot, worker |-> w,
     blocked |-> ~slot.pass_through /\ blockSucceeds]

\* block_key unless pass-through, then the entry and the worker; the lock
\* is released on return.
StartLoopArm(t) ==
    /\ thr[t].pc = "sl_arm"
    /\ lockOwner = t
    /\ LET k == thr[t].key
           slot == thr[t].slot
           w == nArmed + 1
       IN  \E blockSucceeds \in BOOLEAN :
             /\ slot.pass_through => blockSucceeds
             /\ ~blockSucceeds => MayFail
             /\ nFaults' = Faults(~blockSucceeds)
             /\ blockCalls' = IF slot.pass_through THEN blockCalls
                              ELSE [blockCalls EXCEPT ![k] = @ + 1]
             /\ blockOk' = IF slot.pass_through \/ ~blockSucceeds THEN blockOk
                           ELSE [blockOk EXCEPT ![k] = @ + 1]
             /\ slot_workers' = Put(slot_workers, NewEntry(slot, w, blockSucceeds))
             /\ workers' = [workers EXCEPT ![w] =
                   [UnbornWorker EXCEPT !.key = k, !.output = slot.output_key,
                                        !.pc = "top", !.running = TRUE]]
             /\ nArmed' = w
    /\ lockOwner' = NoThread
    /\ thr' = [thr EXCEPT ![t] = IdleThread]
    /\ UNCHANGED << AppVars, HandleVars, BackendVars, unblockCalls, lastRet,
                    nOps, nCtl, inOrder >>

\* ------------------------------------------------------------------------
\* stop_loop and its callers
\* ------------------------------------------------------------------------
\* An emergency stop that ends like shutdown: hooks and hotkey removed.
ContinueLikeShutdown(r) ==
    IF r.todo # << >>
    THEN [r EXCEPT !.key = Head(r.todo), !.todo = Tail(r.todo),
                   !.doneKeys = @ \cup {Head(r.todo)},
                   !.pc = "st_lock", !.w = NoWorker, !.blocked = FALSE,
                   !.slot = IdleThread.slot]
    ELSE CASE r.op \in {"apply", "reload"} ->
                  [r EXCEPT !.pc = "ap_set", !.slot = IdleThread.slot]
           [] r.op \in {"shutdown", "emergency"} ->
                  [r EXCEPT !.pc = "sd_finish", !.slot = IdleThread.slot]
           [] OTHER -> IdleThread

\* What a caller does once stop_loop returned (or before its first call):
\* the next key of its snapshot, else the rest of the operation.
\* emergency_stop also calls keyboard.release(key) after each stop_loop,
\* which touches no state of the engine.
Continue(r) ==
    IF r.todo # << >>
    THEN [r EXCEPT !.key = Head(r.todo), !.todo = Tail(r.todo),
                   !.doneKeys = @ \cup {Head(r.todo)},
                   !.pc = "st_lock", !.w = NoWorker, !.blocked = FALSE,
                   !.slot = IdleThread.slot]
    ELSE CASE r.op \in {"apply", "reload"} ->
                  [r EXCEPT !.pc = "ap_set", !.slot = IdleThread.slot]
           [] r.op = "shutdown" ->
                  [r EXCEPT !.pc = "sd_finish", !.slot = IdleThread.slot]
           [] OTHER -> IdleThread

\* Install the thread's next record; when the operation returns, the loop
\* threads it stopped are marked.
Finish(t, r2) ==
    /\ thr' = [thr EXCEPT ![t] = r2]
    /\ workers' = IF r2.pc = "idle" THEN MarkStopped(thr[t].stopped, thr[t].op)
                  ELSE workers

\* The backend invokes the release hook of key k on thread t.
DeliverRelease(t, k) ==
    /\ CanDispatch(t)
    /\ hooksRelease[k] > 0
    /\ thr' = Delivered(t, k, "release", "st_lock")
    /\ nOps' = nOps + 1
    /\ inOrder' = (inOrder /\ Begun(k))
    /\ UNCHANGED << AppVars, slot_workers, workers, nArmed, lockOwner,
                    HandleVars, BackendVars, BlockVars, lastRet, nCtl, nFaults >>

\* with self._lock: return if the key has no entry, else read the entry
\* and set its stop signal.
StopBegin(t) ==
    /\ thr[t].pc = "st_lock"
    /\ LockFree(t)
    /\ LET k == thr[t].key
       IN  IF ~Has(slot_workers, k)
           THEN Finish(t, Continue(thr[t]))
           ELSE LET e == Get(slot_workers, k)
                IN  /\ workers' = [workers EXCEPT ![e.worker].stop = TRUE]
                    /\ thr' = [thr EXCEPT ![t].w = e.worker,
                                          ![t].slot = e.slot,
                                          ![t].blocked = e.blocked,
                                          ![t].stopped = @ \cup {e.worker},
                                          ![t].pc = "st_join"]
    /\ UNCHANGED << AppVars, slot_workers, nArmed, lockOwner, HandleVars,
                    BackendVars, BlockVars, lastRet, CountVars >>

\* The unblock_key calls of stop_loop for the entry it read.
Unblocks(blocked) == IF blocked THEN 1 ELSE 0

\* A join without timeout returns only once the thread has ended.
JoinUnbounded(alive) == ~alive

\* worker.join(timeout=0.5) returns whether the thread is alive or not.
JoinReturns(alive) == alive \/ ~alive

\* worker.join(timeout=0.5) returns when the loop thread has ended or when
\* the timeout expired; then unblock_key if the entry said blocked.
StopJoin(t) ==
    /\ thr[t].pc = "st_join"
    /\ JoinReturns(Alive(thr[t].w))
    /\ thr' = [thr EXCEPT ![t].pc = "st_del",
                          ![t].timedOut = @ \/ Alive(thr[t].w)]
    /\ unblockCalls' = [unblockCalls EXCEPT ![thr[t].key] =
                           @ + Unblocks(thr[t].blocked)]
    /\ UNCHANGED << AppVars, slot_workers, workers, nArmed, lockOwner,
                    HandleVars, BackendVars, blockCalls, blockOk, lastRet,
                    CountVars >>

\* with self._lock: delete the entry of the key if there is one.
StopDel(t) ==
    /\ thr[t].pc = "st_del"
    /\ LockFree(t)
    /\ slot_workers' = Del(slot_workers, thr[t].key)
    /\ Finish(t, Continue(thr[t]))
    /\ UNCHANGED << AppVars, nArmed, lockOwner, HandleVars, BackendVars,
                    BlockVars, lastRet, CountVars >>

\* emergency_stop, invoked by the backend through the emergency hotkey.
CallEmergency(t) ==
    /\ CanControl(t)
    /\ hotkeys > 0
    /\ Finish(t, Continue([IdleThread EXCEPT !.op = "emergency",
                                             !.todo = KeysOf(slot_workers)]))
    /\ nOps' = nOps + 1
    /\ nCtl' = nCtl + 1
    /\ UNCHANGED << AppVars, slot_workers, nArmed, lockOwner, HandleVars,
                    BackendVars, BlockVars, lastRet, nFaults, inOrder >>

\* ------------------------------------------------------------------------
\* Hook registration: _unregister_hooks and _register_hooks
\* ------------------------------------------------------------------------
Dec(n) == IF n > 0 THEN n - 1 ELSE 0

\* unhook every recorded handle and clear both maps
UnregisterHooks ==
    /\ hooksPress' = [k \in Keys |-> IF k \in press_handles
                                     THEN Dec(hooksPress[k]) ELSE hooksPress[k]]
    /\ hooksRelease' = [k \in Keys |-> IF k \in release_handles
                                       THEN Dec(hooksRelease[k])
                                       ELSE hooksRelease[k]]
    /\ press_handles' = {}
    /\ release_handles' = {}

\* _register_hooks starts with _unregister_hooks and then walks the slots
\* of the config that is current at that moment.
RegUnregister(t) ==
    /\ thr[t].pc = "rg_unreg"
    /\ UnregisterHooks
    /\ thr' = [thr EXCEPT ![t].pc = "rg_slot", ![t].slots = config,
                          ![t].idx = 1]
    /\ UNCHANGED << AppVars, slot_workers, workers, nArmed, lockOwner,
                    emergency_handle, hotkeys, BlockVars, lastRet, CountVars >>

\* Answers of the backend to on_press_key followed by on_release_key:
\* "refuse_*" raises ValueError, RuntimeError or OSError (caught by
\* _register_hooks), "raise_*" raises any other exception.
HookOutcomes == {"ok", "refuse_press", "refuse_release", "raise_press",
                 "raise_release"}

\* What the caller of _register_hooks does when it returns normally:
\* apply_binding returns ("ok"), apply_binding's except clause raises
\* RuntimeError ("err"), start goes on.
RegReturn(r) ==
    CASE r.phase = "rollback" -> "err"
      [] OTHER -> "ok"

\* What reload_config returns for an outcome of apply_binding.
ReloadResult(res) == IF res = "ok" THEN "true" ELSE "false"

\* The outcome of the whole call as seen by the caller of apply_binding or
\* reload_config ("raised": an exception other than RuntimeError escaped).
CallResult(op, res) ==
    [op |-> op,
     res |-> IF op = "reload" /\ res # "raised" THEN ReloadResult(res) ELSE res,
     why |-> IF res \in {"invalid", "noop"} THEN res ELSE "apply"]

\* A registration that forgets to skip disabled slots.
RegistersAny(slot) == TRUE

\* _register_hooks: if not slot.enabled: continue
Registers(slot) == slot.enabled

\* One slot of the loop of _register_hooks.  o is the backend's answer.
\* After the last slot the function returns; an uncaught exception leaves
\* it at once: apply_binding's except clause takes it, from the except
\* clause itself or from start it propagates.
RegSlot(t) ==
    /\ thr[t].pc = "rg_slot"
    /\ LET r == thr[t]
           slot == r.slots[r.idx]
           k == slot.trigger_key
       IN  \E o \in HookOutcomes :
             /\ ~Registers(slot) => o = "ok"
             /\ o # "ok" => MayFail
             /\ nFaults' = Faults(o # "ok")
             /\ hooksPress' =
                  IF Registers(slot) /\ o \in {"ok", "refuse_release", "raise_release"}
                  THEN [hooksPress EXCEPT ![k] = @ + 1] ELSE hooksPress
             /\ hooksRelease' =
                  IF Registers(slot) /\ o = "ok"
                  THEN [hooksRelease EXCEPT ![k] = @ + 1] ELSE hooksRelease
             /\ press_handles' =
                  IF Registers(slot) /\ o = "ok" THEN press_handles \cup {k}
                  ELSE press_handles
             /\ release_handles' =
                  IF Registers(slot) /\ o = "ok" THEN release_handles \cup {k}
                  ELSE release_handles
             /\ LET raised == o \in {"raise_press", "raise_release"}
                    last == r.idx = Len(r.slots)
                    failed == r.regFailed \/ o # "ok"
                    res == IF raised THEN "raised" ELSE RegReturn(r)
                    ensure == r.phase = "start" /\ last /\ ~raised
                IN  /\ thr' = [thr EXCEPT ![t] =
                          IF raised /\ r.phase = "apply"
                          THEN [r EXCEPT !.pc = "ap_rollback", !.regFailed = TRUE]
                          ELSE IF raised \/ last THEN IdleThread
                          ELSE [r EXCEPT !.idx = @ + 1, !.regFailed = failed]]
                    /\ lastRet' = IF (raised /\ r.phase # "apply") \/ (~raised /\ last)
                                  THEN IF r.phase = "start" THEN lastRet
                                       ELSE CallResult(r.op, res)
                                  ELSE lastRet
                    /\ workers' = IF (raised /\ r.phase # "apply") \/ (~raised /\ last)
                                  THEN MarkStopped(r.stopped, r.op) ELSE workers
                    /\ life' = IF r.phase # "start" THEN life
                               ELSE IF raised THEN "start_failed"
                               ELSE IF last THEN "started" ELSE life
                    /\ emergency_handle' = (emergency_handle \/ ensure)
                    /\ hotkeys' = IF ensure /\ ~emergency_handle
                                  THEN hotkeys + 1 ELSE hotkeys
    /\ UNCHANGED << shut, config, slot_workers, nArmed, lockOwner, BlockVars,
                    nOps, nCtl, inOrder >>

\* start(): _register_hooks, then _ensure_emergency_hotkey.
Start(t) ==
    /\ life = "constructed" /\ ~shut
    /\ \A u \in Threads : thr[u].pc = "idle" /\ u >= t
    /\ life' = "starting"
    /\ thr' = [thr EXCEPT ![t] = [IdleThread EXCEPT !.op = "start",
                                   !.phase = "start", !.pc = "rg_unreg"]]
    /\ UNCHANGED << shut, config, slot_workers, workers, nArmed, lockOwner,
                    HandleVars, BackendVars, BlockVars, lastRet, CountVars >>

\* ------------------------------------------------------------------------
\* apply_binding, reload_config, shutdown
\* ------------------------------------------------------------------------
\* A comparison that finds every config different from the active one.
SameConfigNever(new, active) == FALSE

\* config == self.config: dataclasses are equal when their slot lists are.
SameConfig(new, active) == new = active

\* apply_binding(cfg): nothing when equal to the active config, else
\* remember the previous one and stop every key of the worker map.
ApplyBegin(t, op, cfg) ==
    IF SameConfig(cfg, config)
    THEN /\ thr' = thr
         /\ workers' = workers
         /\ lastRet' = CallResult(op, "noop")
    ELSE /\ Finish(t, Continue([IdleThread EXCEPT !.op = op, !.new = cfg,
                                   !.prev = config, !.phase = "apply",
                                   !.todo = KeysOf(slot_workers)]))
         /\ lastRet' = lastRet

CallApply(t, cfg) ==
    /\ CanControl(t)
    /\ life = "started" /\ ~shut
    /\ ApplyBegin(t, "apply", cfg)
    /\ nOps' = nOps + 1
    /\ nCtl' = nCtl + 1
    /\ UNCHANGED << AppVars, slot_workers, nArmed, lockOwner, HandleVars,
                    BackendVars, BlockVars, nFaults, inOrder >>

\* reload_config(): load_config of the file's contents; a ValueError or
\* an unchanged config returns False, else apply_binding.
CallReload(t, doc) ==
    /\ CanControl(t)
    /\ life = "started" /\ ~shut
    /\ LET loaded == load_config(doc)
       IN  IF ~loaded.ok
           THEN /\ thr' = thr
                /\ workers' = workers
                /\ lastRet' = CallResult("reload", "invalid")
           ELSE ApplyBegin(t, "reload", loaded.value)
    /\ nOps' = nOps + 1
    /\ nCtl' = nCtl + 1
    /\ UNCHANGED << AppVars, slot_workers, nArmed, lockOwner, HandleVars,
                    BackendVars, BlockVars, nFaults, inOrder >>

\* self.config = config, after the workers were stopped
ApplySet(t) ==
    /\ thr[t].pc = "ap_set"
    /\ config' = thr[t].new
    /\ thr' = [thr EXCEPT ![t].pc = "rg_unreg"]
    /\ UNCHANGED << life, shut, slot_workers, workers, nArmed, lockOwner,
                    HandleVars, BackendVars, BlockVars, lastRet, CountVars >>

\* except Exception: self.config = previous, then _register_hooks again
ApplyRollback(t) ==
    /\ thr[t].pc = "ap_rollback"
    /\ config' = thr[t].prev
    /\ thr' = [thr EXCEPT ![t].pc = "rg_unreg", ![t].phase = "rollback"]
    /\ UNCHANGED << life, shut, slot_workers, workers, nArmed, lockOwner,
                    HandleVars, BackendVars, BlockVars, lastRet, CountVars >>

\* shutdown(): stop every key of the worker map ...
CallShutdown(t) ==
    /\ CanControl(t)
    /\ ~shut /\ life # "starting"
    /\ shut' = TRUE
    /\ Finish(t, Continue([IdleThread EXCEPT !.op = "shutdown",
                                             !.todo = KeysOf(slot_workers)]))
    /\ nOps' = nOps + 1
    /\ nCtl' = nCtl + 1
    /\ UNCHANGED << life, config, slot_workers, nArmed, lockOwner,
                    HandleVars, BackendVars, BlockVars, lastRet, nFaults,
                    inOrder >>

\* ... then _unregister_hooks and removal of the emergency hotkey.
ShutdownFinish(t) ==
    /\ thr[t].pc = "sd_finish"
    /\ UnregisterHooks
    /\ hotkeys' = IF emergency_handle THEN Dec(hotkeys) ELSE hotkeys
    /\ emergency_handle' = FALSE
    /\ Finish(t, IdleThread)
    /\ UNCHANGED << AppVars, slot_workers, nArmed, lockOwner, BlockVars,
                    lastRet, CountVars >>

\* ------------------------------------------------------------------------
\* AutoFireBindingRunner: _loop, start, stop
\* ------------------------------------------------------------------------
\* The state of AutoFireApp, which the registry does not touch.
AppOnlyVars == << life, shut, config, slot_workers, workers, nArmed,
                  lockOwner, press_handles, release_handles,
                  emergency_handle, hooksPress, hooksRelease, thr, lastRet,
                  nOps, nCtl, inOrder, TimingVars, EngineVars >>

RegistryCounts == << nUi, nCb, nRunners, nLoops >>
RegistryHooks == << onPress, onRelease, hotkeys, _emergency_hotkey_id >>

\* while not self._stop_request.is_set()
RunnerLoopTop(l) ==
    /\ loops[l].pc = "top"
    /\ loops' = [loops EXCEPT ![l].pc =
                    IF runners[loops[l].runner].stop_request THEN "fin"
                    ELSE "body"]
    /\ UNCHANGED << AppOnlyVars, nFaults, BlockVars, _handles, runners, calls,
                    RegistryHooks, regRet, RegistryCounts >>

\* One iteration: "released" (is_pressed false or raising), "wait" (tick
\* not due), "emit" (press_and_release succeeded), "emit_failed".
RunnerLoopBody(l) ==
    /\ loops[l].pc = "body"
    /\ \E outcome \in {"released", "wait", "emit", "emit_failed"} :
          loops' = [loops EXCEPT ![l].pc =
                       IF outcome \in {"released", "emit_failed"} THEN "fin"
                       ELSE "top"]
    /\ UNCHANGED << AppOnlyVars, nFaults, BlockVars, _handles, runners, calls,
                    RegistryHooks, regRet, RegistryCounts >>

\* unblock_key calls for a runner whose _blocked flag reads as given.
RunnerUnblocks(ru) == IF ru.blocked THEN 1 ELSE 0

\* finally: _stop_request.set(); _running.clear(); unblock_key if _blocked
RunnerLoopFinally(l) ==
    /\ loops[l].pc = "fin"
    /\ LET r == loops[l].runner
       IN  /\ runners' = [runners EXCEPT ![r].stop_request = TRUE,
                                         ![r].running = FALSE]
           /\ unblockCalls' = [unblockCalls EXCEPT ![runners[r].trigger_key] =
                                   @ + RunnerUnblocks(runners[r])]
           /\ loops' = [loops EXCEPT ![l] =
                           IF runners[r].blocked
                           THEN [@ EXCEPT !.pc = "fin_unset"]
                           ELSE [UnbornLoop EXCEPT !.pc = "dead"]]
    /\ UNCHANGED << AppOnlyVars, nFaults, blockCalls, blockOk, _handles, calls,
                    RegistryHooks, regRet, RegistryCounts >>

\* ... then self._blocked = False
RunnerLoopUnset(l) ==
    /\ loops[l].pc = "fin_unset"
    /\ runners' = [runners EXCEPT ![loops[l].runner].blocked = FALSE]
    /\ loops' = [loops EXCEPT ![l] = [UnbornLoop EXCEPT !.pc = "dead"]]
    /\ UNCHANGED << AppOnlyVars, nFaults, BlockVars, _handles, calls,
                    RegistryHooks, regRet, RegistryCounts >>

\* Callbacks are dispatched to the first idle callback thread.
CanCallback(c) ==
    /\ c \in CbThreads
    /\ calls[c].pc = "idle"
    /\ \A d \in CbThreads : calls[d].pc = "idle" => d >= c
    /\ nCb < MaxCb
    /\ nUi + nCb < MaxCalls

PendingStarts == Cardinality({c \in CbThreads : calls[c].op = "press"})

\* The backend invokes the on_press closure of runner r:
\* if not runner.running: runner.start(), where start() tests it again.
RunnerPress(c, r) ==
    /\ CanCallback(c)
    /\ r \in onPress
    /\ nLoops + PendingStarts < MaxLoops
    /\ calls' = [calls EXCEPT ![c] =
                    IF runners[r].running THEN IdleCall
                    ELSE [IdleCall EXCEPT !.op = "press", !.pc = "p_block",
                                          !.runner = r]]
    /\ nCb' = nCb + 1
    /\ UNCHANGED << AppOnlyVars, nFaults, BlockVars, _handles, runners, loops,
                    RegistryHooks, regRet, nUi, nRunners, nLoops >>

\* start(): block_key unless pass-through or already blocked; a failure
\* is raised as RuntimeError, which on_press reports.
RunnerStartBlock(c) ==
    /\ calls[c].pc = "p_block"
    /\ LET r == calls[c].runner
           k == runners[r].trigger_key
           need == ~runners[r].pass_through_trigger /\ ~runners[r].blocked
       IN  \E ok \in BOOLEAN :
             /\ ~need => ok
             /\ ~ok => MayFail
             /\ nFaults' = Faults(~ok)
             /\ blockCalls' = IF need THEN [blockCalls EXCEPT ![k] = @ + 1]
                              ELSE blockCalls
             /\ blockOk' = IF need /\ ok THEN [blockOk EXCEPT ![k] = @ + 1]
                           ELSE blockOk
             /\ runners' = [runners EXCEPT ![r].blocked = @ \/ (need /\ ok)]
             /\ calls' = [calls EXCEPT ![c] =
                             IF ok THEN [@ EXCEPT !.pc = "p_spawn"]
                             ELSE IdleCall]
    /\ UNCHANGED << AppOnlyVars, unblockCalls, _handles, loops, RegistryHooks,
                    regRet, RegistryCounts >>

\* start(): _stop_request.clear(); _running.set(); the thread is started
RunnerStartSpawn(c) ==
    /\ calls[c].pc = "p_spawn"
    /\ runners' = [runners EXCEPT ![calls[c].runner].stop_request = FALSE,
                                  ![calls[c].runner].running = TRUE]
    /\ loops' = [loops EXCEPT ![nLoops + 1] =
                    [runner |-> calls[c].runner, pc |-> "top"]]
    /\ nLoops' = nLoops + 1
    /\ calls' = [calls EXCEPT ![c] = IdleCall]
    /\ UNCHANGED << AppOnlyVars, nFaults, BlockVars, _handles, RegistryHooks,
                    regRet, nUi, nCb, nRunners >>

\* stop(): if not self.running: return; _stop_request.set(); _running.clear()
RunnerStopCheck(c) ==
    /\ calls[c].pc = "s_check"
    /\ LET r == calls[c].runner
       IN  IF runners[r].running
           THEN /\ runners' = [runners EXCEPT ![r].stop_request = TRUE,
                                              ![r].running = FALSE]
                /\ calls' = [calls EXCEPT ![c].pc = "s_join"]
           ELSE /\ calls' = [calls EXCEPT ![c].pc = "s_done"]
                /\ UNCHANGED runners
    /\ UNCHANGED << AppOnlyVars, nFaults, BlockVars, _handles, loops,
                    RegistryHooks, regRet, RegistryCounts >>

\* stop(): thread.join(timeout=0.5) has returned, the loop thread dead or
\* not; self._thread = None; unblock_key if self._blocked
RunnerStopJoin(c) ==
    /\ calls[c].pc = "s_join"
    /\ LET r == calls[c].runner
       IN  /\ unblockCalls' = [unblockCalls EXCEPT ![runners[r].trigger_key] =
                                   @ + RunnerUnblocks(runners[r])]
           /\ calls' = [calls EXCEPT ![c].pc =
                           IF runners[r].blocked THEN "s_unset" ELSE "s_done"]
    /\ UNCHANGED << AppOnlyVars, nFaults, blockCalls, blockOk, _handles,
                    runners, loops, RegistryHooks, regRet, RegistryCounts >>

\* ... then self._blocked = False
RunnerStopUnset(c) ==
    /\ calls[c].pc = "s_unset"
    /\ runners' = [runners EXCEPT ![calls[c].runner].blocked = FALSE]
    /\ calls' = [calls EXCEPT ![c].pc = "s_done"]
    /\ UNCHANGED << AppOnlyVars, nFaults, BlockVars, _handles, loops,
                    RegistryHooks, regRet, RegistryCounts >>

\* The backend invokes the on_release closure of runner r: runner.stop()
RunnerRelease(c, r) ==
    /\ CanCallback(c)
    /\ r \in onRelease
    /\ calls' = [calls EXCEPT ![c] = [IdleCall EXCEPT !.op = "release",
                                       !.pc = "s_check", !.runner = r]]
    /\ nCb' = nCb + 1
    /\ UNCHANGED << AppOnlyVars, nFaults, BlockVars, _handles, runners, loops,
                    RegistryHooks, regRet, nUi, nRunners, nLoops >>

\* The runners of the handles, in the dict's order.
RunnersOf(hs) == [i \in DOMAIN hs |-> hs[i].runner]

\* A call that stops the runners rs one after the other.
StopEach(c, op, rs, bs) ==
    [IdleCall EXCEPT !.op = op,
                     !.pc = IF rs = << >> THEN "c_finish" ELSE "s_check",
                     !.runner = IF rs = << >> THEN NoRunner ELSE Head(rs),
                     !.todo = IF rs = << >> THEN << >> ELSE Tail(rs),
                     !.bindings = bs,
                     !.hadHotkey = (op # "stop_all" /\ _emergency_hotkey_id)]

\* stop_all(), invoked by the backend for the emergency hotkey
StopAll(c) ==
    /\ CanCallback(c)
    /\ hotkeys > 0
    /\ _handles # << >>
    /\ calls' = [calls EXCEPT ![c] =
                    StopEach(c, "stop_all", RunnersOf(_handles), << >>)]
    /\ nCb' = nCb + 1
    /\ UNCHANGED << AppOnlyVars, nFaults, BlockVars, _handles, runners, loops,
                    RegistryHooks, regRet, nUi, nRunners, nLoops >>

CanCall ==
    /\ calls[UiThread].pc = "idle"
    /\ nUi < MaxUi
    /\ nUi + nCb < MaxCalls

\* clear(): for handle in list(self._handles.values())
Clear ==
    /\ CanCall
    /\ calls' = [calls EXCEPT ![UiThread] =
                    StopEach(UiThread, "clear", RunnersOf(_handles), << >>)]
    /\ nUi' = nUi + 1
    /\ UNCHANGED << AppOnlyVars, nFaults, BlockVars, _handles, runners, loops,
                    RegistryHooks, regRet, nCb, nRunners, nLoops >>

\* apply_bindings(bindings): self.clear() first
ApplyBindings(bs) ==
    /\ CanCall
    /\ calls' = [calls EXCEPT ![UiThread] =
                    StopEach(UiThread, "apply_bindings", RunnersOf(_handles),
                             bs)]
    /\ nUi' = nUi + 1
    /\ UNCHANGED << AppOnlyVars, nFaults, BlockVars, _handles, runners, loops,
                    RegistryHooks, regRet, nCb, nRunners, nLoops >>

\* runner.stop() returned.  on_release returns; stop_all goes on with the
\* next handle; _teardown_handle unhooks the handle's two hooks and clear
\* goes on with the next handle.
RunnerStopDone(c) ==
    /\ calls[c].pc = "s_done"
    /\ LET cl == calls[c]
           more == cl.todo # << >>
           next == [cl EXCEPT !.pc = "s_check", !.runner = Head(cl.todo),
                              !.todo = Tail(cl.todo)]
       IN  CASE cl.op = "release" ->
                  /\ calls' = [calls EXCEPT ![c] = IdleCall]
                  /\ UNCHANGED << onPress, onRelease >>
             [] cl.op = "stop_all" ->
                  /\ calls' = [calls EXCEPT ![c] =
                                  IF more THEN next ELSE IdleCall]
                  /\ UNCHANGED << onPress, onRelease >>
             [] OTHER ->
                  /\ onPress' = onPress \ {cl.runner}
                  /\ onRelease' = onRelease \ {cl.runner}
                  /\ calls' = [calls EXCEPT ![c] =
                                  IF more THEN next
                                  ELSE [cl EXCEPT !.pc = "c_finish",
                                                  !.runner = NoRunner]]
    /\ UNCHANGED << AppOnlyVars, nFaults, BlockVars, _handles, runners, loops,
                    hotkeys, _emergency_hotkey_id, regRet, RegistryCounts >>

\* A clear that forgets the hotkey at the backend.
RemoveHotkeyForgotten(id, n) == n

\* clear(), lines 146-149: remove_hotkey if an id is recorded; n is the
\* number of hotkeys at the backend.
RemoveHotkey(id, n) == IF id THEN Dec(n) ELSE n

\* clear(): self._handles.clear(); remove_hotkey; _emergency_hotkey_id = None
ClearFinish(c) ==
    /\ calls[c].pc = "c_finish"
    /\ _handles' = << >>
    /\ hotkeys' = RemoveHotkey(_emergency_hotkey_id, hotkeys)
    /\ _emergency_hotkey_id' = FALSE
    /\ calls' = [calls EXCEPT ![c] =
                    IF calls[c].bindings = << >> THEN IdleCall
                    ELSE [@ EXCEPT !.pc = "a_register"]]
    /\ UNCHANGED << AppOnlyVars, nFaults, BlockVars, runners, loops, onPress,
                    onRelease, regRet, RegistryCounts >>

\* register(), lines 162-166: which way a call for binding b goes.
RegisterCaseOverwriting(hs, b) ==
    IF Has(hs, b.trigger_key) /\ Get(hs, b.trigger_key).binding.id = b.id
    THEN "same" ELSE "new"

\* A register that installs a binding it already holds once more.
RegisterCaseRenewing(hs, b) ==
    IF ~Has(hs, b.trigger_key) THEN "new"
    ELSE IF Get(hs, b.trigger_key).binding.id # b.id THEN "conflict"
    ELSE "new"

RegisterCase(hs, b) ==
    IF ~Has(hs, b.trigger_key) THEN "new"
    ELSE IF Get(hs, b.trigger_key).binding.id # b.id THEN "conflict"
    ELSE "same"

\* What the backend does to a register call that gets past the checks:
\* "ok", "press_refused" (on_press_key raises), "release_refused"
\* (on_release_key raises, the press hook stays installed) or
\* "hotkey_refused" (add_hotkey raises, which is only reported).
RegisterOutcomes == {"ok", "press_refused", "release_refused",
                     "hotkey_refused"}

\* A register that adds the emergency hotkey whether or not it has one.
NeedsHotkeyAlways(id) == TRUE

\* register(), line 199: self._emergency_hotkey_id is None (the registry
\* being built with register_emergency, its default).
NeedsHotkey(id) == ~id

\* register(binding), as one step of the calling thread.
Register(b, o) ==
    LET case == RegisterCase(_handles, b)
        r == nRunners + 1
        hooked == o \in {"ok", "hotkey_refused"}
        wantsHotkey == hooked /\ NeedsHotkey(_emergency_hotkey_id)
    IN  /\ case = "new" => nRunners < MaxRunners
        /\ case # "new" => o = "ok"
        /\ o # "ok" => MayFail
        /\ o = "hotkey_refused" => ~_emergency_hotkey_id
        /\ nFaults' = Faults(o # "ok")
        /\ regRet' = [op |-> "register", binding |-> b,
                      res |-> CASE case = "conflict" -> "ValueError"
                                [] case = "same" -> "returned"
                                [] hooked -> "registered"
                                [] OTHER -> "ValueError"]
        /\ IF case = "new"
           THEN /\ nRunners' = r
                /\ runners' = [runners EXCEPT ![r] = NewRunner(b)]
                /\ onPress' = IF o # "press_refused" THEN onPress \cup {r}
                              ELSE onPress
                /\ onRelease' = IF hooked THEN onRelease \cup {r}
                                ELSE onRelease
                /\ hotkeys' = IF wantsHotkey /\ o = "ok" THEN hotkeys + 1
                              ELSE hotkeys
                /\ _emergency_hotkey_id' =
                       (_emergency_hotkey_id \/ (wantsHotkey /\ o = "ok"))
                /\ _handles' = IF hooked
                               THEN Put(_handles, [key |-> b.trigger_key,
                                                   binding |-> b,
                                                   runner |-> r])
                               ELSE _handles
           ELSE UNCHANGED << nRunners, runners, onPress, onRelease, hotkeys,
                             _emergency_hotkey_id, _handles >>

\* registry.register(binding) called from the UI
CallRegister(b, o) ==
    /\ CanCall
    /\ Register(b, o)
    /\ nUi' = nUi + 1
    /\ UNCHANGED << AppOnlyVars, BlockVars, loops, calls, nCb, nLoops >>

\* apply_bindings: for binding in bindings.values(): self.register(binding),
\* a ValueError being reported and the iteration going on
ApplyRegister(c, o) ==
    /\ calls[c].pc = "a_register"
    /\ Register(Head(calls[c].bindings), o)
    /\ calls' = [calls EXCEPT ![c] =
                    IF Tail(calls[c].bindings) = << >> THEN IdleCall
                    ELSE [@ EXCEPT !.bindings = Tail(@)]]
    /\ UNCHANGED << AppOnlyVars, BlockVars, loops, nUi, nCb, nLoops >>

RegistryNext ==
    \/ \E b \in Bindings, o \in RegisterOutcomes : CallRegister(b, o)
    \/ Clear
    \/ \E bs \in BindingSets : ApplyBindings(bs)
    \/ \E o \in RegisterOutcomes : ApplyRegister(UiThread, o)
    \/ ClearFinish(UiThread)
    \/ \E c \in CbThreads, r \in RunnerIds : RunnerPress(c, r)
    \/ \E c \in CbThreads : RunnerStartBlock(c)
    \/ \E c \in CbThreads : RunnerStartSpawn(c)
    \/ \E c \in CbThreads, r \in RunnerIds : RunnerRelease(c, r)
    \/ \E c \in CbThreads : StopAll(c)
    \/ \E c \in Callers : RunnerStopCheck(c)
    \/ \E c \in Callers : RunnerStopJoin(c)
    \/ \E c \in Callers : RunnerStopUnset(c)
    \/ \E c \in Callers : RunnerStopDone(c)
    \/ \E l \in LoopIds : RunnerLoopTop(l)
    \/ \E l \in LoopIds : RunnerLoopBody(l)
    \/ \E l \in LoopIds : RunnerLoopFinally(l)
    \/ \E l \in LoopIds : RunnerLoopUnset(l)

\* The registry of a process whose AutoFireApp is constructed and never
\* started.
RegistryStart == Init /\ config = CfgA

RegistrySpec == RegistryStart /\ [][RegistryNext]_vars

\* ------------------------------------------------------------------------
\* The timing of the loop thread: AutoFireApp._loop
\* ------------------------------------------------------------------------
\* The state of AutoFireApp and of the backend.
AppAllVars == << life, shut, config, slot_workers, workers, nArmed,
                 lockOwner, press_handles, release_handles,
                 emergency_handle, hooksPress, hooksRelease, hotkeys,
                 blockCalls, blockOk, unblockCalls, thr, lastRet, nOps,
                 nCtl, nFaults, inOrder >>

\* Everything but the timing of the loop thread.
NoTimingVars == << AppAllVars, RegistryVars, EngineVars >>

\* What the operations of AutoFireApp leave alone.
OtherVars == << RegistryVars, TimingVars, EngineVars >>

Max(a, b) == IF a >= b THEN a ELSE b
Min(a, b) == IF a <= b THEN a ELSE b

\* interval_s = max(MIN_INTERVAL_MS / 1000.0, slot.interval_ms / 1000.0)
interval_s(ms) == Max(MIN_INTERVAL_MS, ms)

\* A tick that advances by two intervals for each pulse.
NextTickSkipping(tick, now, I) == tick + 2 * I

\* next_tick += interval_s; if next_tick - now_value > 5 * interval_s:
\* next_tick = now_value + interval_s
NextTick(tick, now, I) ==
    IF (tick + I) - now > 5 * I THEN now + I ELSE tick + I

\* sleep_for = max(0.0, min(interval_s, next_tick - now_value))
SleepFor(tick, now, I) == Max(0, Min(I, tick - now))

\* A trigger that reads as pressed for ever.
is_pressed_stuck(now, hold) == TRUE

\* self._keyboard.is_pressed(slot.trigger_key): the trigger is held from
\* time 0 until holdMs.
is_pressed(now, hold) == now < hold

\* One iteration up to the sleep: is_pressed, now_value = self._now(), a
\* pulse if the tick is due.
TickTop ==
    /\ tPc = "top"
    /\ IF ~is_pressed(tNow, holdMs)
       THEN /\ tPc' = "done"
            /\ UNCHANGED << now_value, next_tick, pulses, burst >>
       ELSE /\ now_value' = tNow
            /\ IF tNow >= next_tick
               THEN /\ pulses < MaxPulses
                    /\ pulses' = pulses + 1
                    /\ burst' = burst + 1
                    /\ next_tick' = NextTick(next_tick, tNow,
                                             interval_s(tInterval))
               ELSE UNCHANGED << next_tick, pulses, burst >>
            /\ tPc' = "sleep"
    /\ UNCHANGED << tInterval, holdMs, tNow, nStalls >>

\* if sleep_for > 0: self._sleep(sleep_for)
TickSleep ==
    /\ tPc = "sleep"
    /\ LET d == SleepFor(next_tick, now_value, interval_s(tInterval))
       IN  /\ tNow' = tNow + d
           /\ burst' = IF d > 0 THEN 0 ELSE burst
    /\ tPc' = "top"
    /\ UNCHANGED << tInterval, holdMs, next_tick, now_value, pulses, nStalls >>

\* The thread is not scheduled for d milliseconds.
Stall(d) ==
    /\ tPc # "done"
    /\ nStalls < MaxStalls
    /\ nStalls' = nStalls + 1
    /\ tNow' = tNow + d
    /\ UNCHANGED << tInterval, holdMs, next_tick, now_value, tPc, pulses,
                    burst >>

TimingNext ==
    \/ TickTop /\ UNCHANGED NoTimingVars
    \/ TickSleep /\ UNCHANGED NoTimingVars
    \/ \E d \in 1..MaxStall :
          Stall(d) /\ UNCHANGED NoTimingVars

TimingStart ==
    /\ AppInit
    /\ config = CfgA
    /\ RegistryInit
    /\ EngineInit
    /\ \E I \in Intervals, D \in Holds : TimingInit(I, D)

TimingSpec == TimingStart /\ [][TimingNext]_vars

\* The loop thread keeps running: an iteration that can be taken is taken,
\* and a sleep returns.  A stall is the scheduler's choice.
TimingLiveSpec ==
    /\ TimingSpec
    /\ WF_vars(TickTop /\ UNCHANGED NoTimingVars)
    /\ WF_vars(TickSleep /\ UNCHANGED NoTimingVars)

\* ------------------------------------------------------------------------
\* AutoFireEngine: bind, unbind, _set_slot_active, _autofire_loop
\* ------------------------------------------------------------------------
\* Everything but the engine of the UI.
NoEngineVars == << AppAllVars, RegistryVars, TimingVars >>

CanEngineEvent == nEngineEvents < MaxEngineEvents

\* bind_trigger_handlers with a slot for every key: every state False,
\* the press and release hooks installed.
BindTriggerHandlers ==
    /\ CanEngineEvent
    /\ ~_is_running
    /\ _is_running' = TRUE
    /\ _slot_states' = [k \in Keys |-> "off"]
    /\ engineHooked' = TRUE
    /\ nEngineEvents' = nEngineEvents + 1
    /\ UNCHANGED << _slot_threads, engineLoops, nEngineLoops >>

\* unbind_trigger_handlers: every state False, the joins return after
\* their timeout at the latest, both dicts are cleared, unhook_all.
UnbindTriggerHandlers ==
    /\ CanEngineEvent
    /\ _is_running
    /\ _is_running' = FALSE
    /\ _slot_states' = [k \in Keys |-> "none"]
    /\ _slot_threads' = [k \in Keys |-> NoEngineLoop]
    /\ engineHooked' = FALSE
    /\ nEngineEvents' = nEngineEvents + 1
    /\ UNCHANGED << engineLoops, nEngineLoops >>

\* self._slot_states.get(trigger_key) == active
StateIs(st, active) == st = (IF active THEN "on" ELSE "off")

\* _on_trigger_press / _on_trigger_release -> _set_slot_active(slot, active)
SetSlotActive(k, active) ==
    /\ CanEngineEvent
    /\ engineHooked
    /\ active => nEngineLoops < MaxEngineLoops
    /\ nEngineEvents' = nEngineEvents + 1
    /\ IF StateIs(_slot_states[k], active)
       THEN UNCHANGED << _slot_states, _slot_threads, engineLoops, nEngineLoops >>
       ELSE /\ _slot_states' = [_slot_states EXCEPT ![k] =
                                   IF active THEN "on" ELSE "off"]
            /\ IF active /\ _is_running
               THEN /\ engineLoops' = [engineLoops EXCEPT ![nEngineLoops + 1] =
                                          [key |-> k, pc |-> "check"]]
                    /\ _slot_threads' = [_slot_threads EXCEPT ![k] =
                                            nEngineLoops + 1]
                    /\ nEngineLoops' = nEngineLoops + 1
               ELSE /\ _slot_threads' =
                          IF ~active /\ _is_running
                          THEN [_slot_threads EXCEPT ![k] = NoEngineLoop]
                          ELSE _slot_threads
                    /\ UNCHANGED << engineLoops, nEngineLoops >>
    /\ UNCHANGED << _is_running, engineHooked >>

\* with self._lock: if not self._slot_states.get(trigger_key, False) or
\* not self._is_running: break
KeepsGoing(st, running) == st = "on" /\ running

AutofireLoopCheck(l) ==
    /\ engineLoops[l].pc = "check"
    /\ engineLoops' = [engineLoops EXCEPT ![l] =
          IF KeepsGoing(_slot_states[engineLoops[l].key], _is_running)
          THEN [@ EXCEPT !.pc = "emit"]
          ELSE [UnbornEngineLoop EXCEPT !.pc = "dead"]]
    /\ UNCHANGED << _is_running, _slot_states, _slot_threads, engineHooked,
                    nEngineLoops, nEngineEvents >>

\* key down, time.sleep(0.02), key up
AutofireLoopEmit(l) ==
    /\ engineLoops[l].pc = "emit"
    /\ engineLoops' = [engineLoops EXCEPT ![l].pc = "sleep"]
    /\ UNCHANGED << _is_running, _slot_states, _slot_threads, engineHooked,
                    nEngineLoops, nEngineEvents >>

\* time.sleep(interval_sec) returns
AutofireLoopSleep(l) ==
    /\ engineLoops[l].pc = "sleep"
    /\ engineLoops' = [engineLoops EXCEPT ![l].pc = "check"]
    /\ UNCHANGED << _is_running, _slot_states, _slot_threads, engineHooked,
                    nEngineLoops, nEngineEvents >>

EngineNext ==
    \/ BindTriggerHandlers /\ UNCHANGED NoEngineVars
    \/ UnbindTriggerHandlers /\ UNCHANGED NoEngineVars
    \/ \E k \in Keys, active \in BOOLEAN :
          SetSlotActive(k, active) /\ UNCHANGED NoEngineVars
    \/ \E l \in EngineLoopIds : AutofireLoopCheck(l) /\ UNCHANGED NoEngineVars
    \/ \E l \in EngineLoopIds : AutofireLoopEmit(l) /\ UNCHANGED NoEngineVars
    \/ \E l \in EngineLoopIds : AutofireLoopSleep(l) /\ UNCHANGED NoEngineVars

EngineStart == Init /\ config = CfgA

EngineSpec == EngineStart /\ [][EngineNext]_vars

\* ------------------------------------------------------------------------
\* Specification
\* ------------------------------------------------------------------------
Next ==
    \/ \E t \in Threads : Start(t) /\ UNCHANGED OtherVars
    \/ \E t \in Threads : RegUnregister(t) /\ UNCHANGED OtherVars
    \/ \E t \in Threads : RegSlot(t) /\ UNCHANGED OtherVars
    \/ \E t \in Threads, k \in Keys : DeliverPress(t, k) /\ UNCHANGED OtherVars
    \/ \E t \in Threads : PressBegin(t) /\ UNCHANGED OtherVars
    \/ \E t \in Threads : StartLoopArm(t) /\ UNCHANGED OtherVars
    \/ \E w \in WorkerIds : LoopTop(w) /\ UNCHANGED OtherVars
    \/ \E w \in WorkerIds : LoopBody(w) /\ UNCHANGED OtherVars
    \/ \E t \in Threads, k \in Keys : DeliverRelease(t, k) /\ UNCHANGED OtherVars
    \/ \E t \in Threads : StopBegin(t) /\ UNCHANGED OtherVars
    \/ \E t \in Threads : StopJoin(t) /\ UNCHANGED OtherVars
    \/ \E t \in Threads : StopDel(t) /\ UNCHANGED OtherVars
    \/ \E t \in Threads : CallEmergency(t) /\ UNCHANGED OtherVars
    \/ \E t \in Threads, cfg \in Configs : CallApply(t, cfg) /\ UNCHANGED OtherVars
    \/ \E t \in Threads, doc \in RawDocs : CallReload(t, doc) /\ UNCHANGED OtherVars
    \/ \E t \in Threads : ApplySet(t) /\ UNCHANGED OtherVars
    \/ \E t \in Threads : ApplyRollback(t) /\ UNCHANGED OtherVars
    \/ \E t \in Threads : CallShutdown(t) /\ UNCHANGED OtherVars
    \/ \E t \in Threads : ShutdownFinish(t) /\ UNCHANGED OtherVars

Spec == Init /\ [][Next]_vars

\* ------------------------------------------------------------------------
\* Properties
\* ------------------------------------------------------------------------
\* Every callback and every call has returned.
AllReturned == \A t \in Threads : thr[t].pc = "idle"

\* A stop_loop call that read the entry of loop thread w is still running.
StopInFlight(w) ==
    \E t \in Threads : thr[t].pc \in {"st_join", "st_del"} /\ thr[t].w = w

\* Successful block_key calls of key k not yet undone by an unblock_key.
NetBlocked(k) == blockOk[k] - unblockCalls[k]

\* The step makes the call that thread t runs return.
Returns(t) == thr[t].pc # "idle" /\ thr'[t].pc = "idle"

\* Two enabled slots of cfg share a trigger key.
HasDuplicate(cfg) ==
    \E i, j \in DOMAIN cfg :
        /\ i < j
        /\ cfg[i].enabled /\ cfg[j].enabled
        /\ cfg[i].trigger_key = cfg[j].trigger_key

\* C11: applying a config in which two enabled slots share a trigger key
\* registers only one of them: when that apply_binding returns (the
\* backend having refused no call), the backend holds at most one press
\* hook and one release hook per trigger key.
C11_OneHookPairPerKey ==
    [][ \A t \in Threads :
          (/\ thr[t].op \in {"apply", "reload"}
           /\ HasDuplicate(thr[t].new)
           /\ Returns(t)
           /\ nFaults' = 0)
          => \A k \in Keys : hooksPress'[k] <= 1 /\ hooksRelease'[k] <= 1 ]_vars

\* C1: for a slot that does not pass its trigger through, each arming
\* calls block_key once and the disarming that belongs to it calls
\* unblock_key exactly once, whatever path disarms it: once every call has
\* returned and a key has no entry left, its unblock_key calls are as many
\* as its successful block_key calls.
C1_UnblockOncePerArming ==
    AllReturned =>
        \A k \in Keys : ~Has(slot_workers, k) => unblockCalls[k] = blockOk[k]

\* C2: the loop thread's own exit clears the armed state and unblocks the
\* key: no entry is left with an ended loop thread and a blocked key,
\* waiting for a later release or stop call.
C2_SelfExitTearsDown ==
    \A i \in DOMAIN slot_workers :
        LET e == slot_workers[i]
        IN  ~(workers[e.worker].pc = "dead" /\ e.blocked
              /\ ~StopInFlight(e.worker))

\* C3: however concurrent stop_loop callers interleave, a key's
\* unblock_key calls never exceed its block_key calls.
C3_UnblockWithinBlock ==
    \A k \in Keys : unblockCalls[k] <= blockCalls[k]

\* C4: a trigger key never has two live loop threads whose stop flags are
\* both unset.
C4_OneLiveLoopPerKey ==
    \A w1, w2 \in WorkerIds :
        (/\ w1 # w2
         /\ Alive(w1) /\ Alive(w2)
         /\ workers[w1].key = workers[w2].key
         /\ ~workers[w1].stop /\ ~workers[w2].stop) => FALSE

\* The runner of key k is Idle: no live loop thread with an unset stop
\* flag, the key not blocked, no entry in the worker map.
IdleRunner(k) ==
    /\ ~Has(slot_workers, k)
    /\ NetBlocked(k) <= 0
    /\ \A w \in WorkerIds :
          ~(Alive(w) /\ workers[w].key = k /\ ~workers[w].stop)

\* Of the events delivered for the key of callback t up to now, the last
\* one is a release.
LastIsRelease(t) ==
    IF thr[t].op = "release" THEN thr[t].later = ""
    ELSE thr[t].later = "release"

\* C5: whatever events are delivered for a key, if the last one is a
\* release then the runner is Idle once every callback has returned, also
\* when the callbacks run on separate threads and a press arrives while a
\* release is joining (each callback having taken the lock before the
\* next event of its key was delivered).
C5_ReleaseLastMeansIdle ==
    [][ \A t \in Threads, k \in Keys :
          (/\ thr[t].op \in {"press", "release"}
           /\ thr[t].key = k
           /\ Returns(t)
           /\ \A u \in Threads : thr'[u].pc = "idle"
           /\ LastIsRelease(t)
           /\ inOrder)
          => IdleRunner(k)' ]_vars

\* C6: when emergency_stop has returned, every key it stopped is
\* unblocked and no loop thread it stopped emits a pulse any more.
C6_EmergencyStopsAll ==
    [][ /\ \A t \in Threads :
             (thr[t].op = "emergency" /\ Returns(t))
             => \A k \in thr[t].doneKeys : NetBlocked(k)' <= 0
        /\ \A w \in WorkerIds :
             workers'[w].late => workers'[w].stoppedBy # "emergency" ]_vars

\* Key k is the trigger of an enabled slot of cfg.
EnabledIn(cfg, k) ==
    \E i \in DOMAIN cfg : cfg[i].enabled /\ cfg[i].trigger_key = k

\* C7: once apply_binding and every pending callback have returned, a
\* trigger without hooks in the active config has no running loop thread
\* and is not blocked.
C7_ReloadLeaksNothing ==
    (AllReturned /\ lastRet.op \in {"apply", "reload"} /\ lastRet.why = "apply")
    => \A k \in Keys :
          ~EnabledIn(config, k) =>
              /\ NetBlocked(k) <= 0
              /\ \A w \in WorkerIds :
                    ~(Alive(w) /\ workers[w].key = k /\ ~workers[w].stop)

\* The keys that have a hook pair when every enabled slot of cfg is
\* registered.
HookedKeys(cfg) == {k \in Keys : EnabledIn(cfg, k)}

\* C8: apply_binding is all-or-nothing: when the backend refused a press
\* or release hook of the new config, the call returns an error with the
\* previous config and the previous hooks back in place.
C8_ApplyAllOrNothing ==
    [][ \A t \in Threads :
          (/\ thr[t].op \in {"apply", "reload"}
           /\ thr[t].pc = "rg_slot"
           /\ Returns(t)
           /\ (thr[t].regFailed \/ nFaults' > nFaults))
          => /\ lastRet'.res \notin {"ok", "true"}
             /\ config' = thr[t].prev
             /\ press_handles' = HookedKeys(thr[t].prev)
             /\ release_handles' = HookedKeys(thr[t].prev) ]_vars

\* C9: reload_config of a source that is no valid config returns False
\* and changes neither the config nor the hooks, the loop threads, the
\* worker map or the blocked keys.
C9_InvalidReloadKeepsState ==
    [][ \A t \in Threads, doc \in InvalidDocs :
          CallReload(t, doc)
          => /\ lastRet' = [op |-> "reload", res |-> "false", why |-> "invalid"]
             /\ UNCHANGED << config, HandleVars, BackendVars, BlockVars,
                             slot_workers, workers, thr >> ]_vars

\* An invalid reload was refused while a slot was armed and its key
\* blocked.
C9_Witness ==
    /\ lastRet = [op |-> "reload", res |-> "false", why |-> "invalid"]
    /\ \E k \in Keys :
          /\ IsArmed(k) /\ Get(slot_workers, k).blocked
          /\ Alive(Get(slot_workers, k).worker)
          /\ k \in press_handles /\ k \in release_handles

\* reload_config has returned True and no other change of the config is
\* under way.
ReloadDone ==
    /\ lastRet = [op |-> "reload", res |-> "true", why |-> "apply"]
    /\ \A t \in Threads : thr[t].op \notin {"apply", "reload"}

\* C10: after a successful reload, a press on a trigger that the new
\* config does not enable starts no loop; a press on a trigger it enables
\* arms the slot of the new config, and the loop thread of an armed slot
\* emits that slot's output key.
C10_PressFollowsNewConfig ==
    [][ \A t \in Threads :
          /\ (PressBegin(t) /\ ReloadDone)
             => IF ~EnabledIn(config, thr[t].key)
                THEN /\ thr'[t].pc = "idle"
                     /\ UNCHANGED << slot_workers, workers, BlockVars >>
                ELSE \/ IsArmed(thr[t].key)
                     \/ /\ thr'[t].pc = "sl_arm"
                        /\ thr'[t].slot.trigger_key = thr[t].key
                        /\ thr'[t].slot.enabled
                        /\ \E i \in DOMAIN config : config[i] = thr'[t].slot
          /\ StartLoopArm(t)
             => LET e == Get(slot_workers', thr[t].key)
                IN  /\ e.slot = thr[t].slot
                    /\ workers'[e.worker].output = thr[t].slot.output_key
                    /\ workers'[e.worker].pc = "top"
                    /\ ~workers'[e.worker].stop ]_vars

\* After a reload from a config that enables "e" to CfgB, the slot of
\* CfgB for "x" is armed with its output key, and a press of "e", which
\* CfgB does not enable, is about to be handled.
C10_Witness ==
    /\ ReloadDone
    /\ config = CfgB
    /\ Has(slot_workers, "x")
    /\ Get(slot_workers, "x").slot = CfgB[1]
    /\ Alive(Get(slot_workers, "x").worker)
    /\ workers[Get(slot_workers, "x").worker].output = "z"
    /\ ~Has(slot_workers, "e")
    /\ \E t \in Threads : thr[t].pc = "hp_lock" /\ thr[t].key = "e"

\* register is called, directly or from apply_bindings.
RegisterStep ==
    \/ /\ calls[UiThread].pc = "idle"
       /\ calls'[UiThread].pc = "idle"
       /\ nUi' = nUi + 1
    \/ /\ calls[UiThread].pc = "a_register"
       /\ calls'[UiThread] # calls[UiThread]

\* The registry holds trigger k under a binding id other than id.
HeldByOther(k, id) ==
    \E i \in DOMAIN _handles :
        _handles[i].key = k /\ _handles[i].binding.id # id

\* C12: register(binding) for a trigger key that is registered under a
\* different binding id fails with an error, and the existing registration
\* (binding, runner, hook handles) and the hooks at the backend stay as
\* they were.
C12_ConflictKeepsRegistration ==
    [][ (/\ RegisterStep
         /\ HeldByOther(regRet'.binding.trigger_key, regRet'.binding.id))
        => /\ regRet'.res = "ValueError"
           /\ UNCHANGED << _handles, runners, onPress, onRelease, hotkeys,
                           _emergency_hotkey_id >> ]_vars

C12_Witness ==
    /\ regRet.res = "ValueError"
    /\ nFaults = 0
    /\ HeldByOther(regRet.binding.trigger_key, regRet.binding.id)
    /\ \E i \in DOMAIN _handles :
          _handles[i].runner \in onPress \cap onRelease

\* C13: when shutdown() has returned, the backend holds no press or
\* release hook and no emergency hotkey, no key is blocked, no loop thread
\* runs and the runtime slot state is empty, whatever press and release
\* events came before the call or overlapped it.
C13_ShutdownLeavesNothing ==
    [][ \A t \in Threads :
          (/\ thr[t].op = "shutdown"
           /\ Returns(t)
           /\ nFaults' = 0
           /\ ~HasDuplicate(config))
          => /\ \A k \in Keys :
                  /\ hooksPress'[k] = 0
                  /\ hooksRelease'[k] = 0
                  /\ NetBlocked(k)' <= 0
             /\ hotkeys' = 0
             /\ \A w \in WorkerIds : ~Alive(w)'
             /\ slot_workers' = << >> ]_vars

\* Thread t is inside the press dispatch, holding the lock of start_loop.
InsideDispatch(t) == thr[t].op = "press" /\ thr[t].pc = "sl_arm"

\* C14: the mutating operations (apply_binding with its hook registration,
\* shutdown, emergency stop) and the press/release callbacks exclude each
\* other through the one reentrant lock: while a thread is inside the
\* press dispatch, no other thread changes the config, the hook handles or
\* the worker map.
C14_DispatchExcludesMutation ==
    [][ \A t, u \in Threads :
          (/\ InsideDispatch(t)
           /\ u # t
           /\ thr[u].op \in {"apply", "reload", "shutdown", "emergency"}
           /\ thr'[u] # thr[u])
          => UNCHANGED << config, press_handles, release_handles,
                          emergency_handle, slot_workers >> ]_vars

\* AutoFireApp.is_running
is_running == Len(slot_workers) > 0

\* C15: is_running is true exactly when the loop thread of some trigger
\* key runs with its stop flag unset; checked in the states where every
\* callback and call has returned.
C15_IsRunningMeansLoop ==
    AllReturned
    => (is_running <=> \E w \in WorkerIds : Alive(w) /\ ~workers[w].stop)

\* Trigger key k is Armed: its entry holds a loop thread whose running
\* event is set.
Armed(k) ==
    \E i \in DOMAIN slot_workers :
        /\ slot_workers[i].key = k
        /\ workers[slot_workers[i].worker].running

\* The press callback of thread t passes its test of the armed state.
PressServed(t) ==
    thr[t].op = "press" /\ thr[t].pc = "hp_lock" /\ thr'[t].pc # "hp_lock"

Idle(k) ==
    /\ \A w \in WorkerIds : ~(Alive(w) /\ workers[w].key = k)
    /\ NetBlocked(k) <= 0

\* The release callback of thread t passes its test of the worker map.
ReleaseServed(t) ==
    thr[t].op = "release" /\ thr[t].pc = "st_lock" /\ thr'[t].pc # "st_lock"

\* C17: a release event for a trigger key that is Idle is a no-op: the
\* callback returns at once, without a join or an unblock_key call, and
\* the runtime state, the hooks and the config stay as they were.  Checked
\* for a release served while no other callback or call is in progress and
\* the backend has refused nothing.
C17_ReleaseWhileIdleIsNoOp ==
    [][ \A t \in Threads, k \in Keys :
          (/\ ReleaseServed(t) /\ thr[t].key = k /\ Idle(k)
           /\ \A u \in Threads \ {t} : thr[u].pc = "idle"
           /\ nFaults = 0)
          => /\ thr'[t].pc = "idle"
             /\ UNCHANGED << slot_workers, unblockCalls, config, hooksPress,
                             hooksRelease, press_handles, release_handles >>
      ]_vars

\* C18: once a release has been processed, that is once the stop_loop
\* call of the release callback has returned from its join of the loop
\* thread, that loop thread issues no further press_and_release; checked
\* for the newest loop thread, so no later press has armed anything, and
\* for callbacks served in the order of their events.
C18_NoPulseAfterRelease ==
    \A w \in WorkerIds :
        (inOrder /\ w = nArmed /\ workers[w].stoppedBy = "release")
        => ~workers[w].late

\* C19: for a slot with pass_through = true neither block_key nor
\* unblock_key is called for its trigger key: not by the press that arms
\* the slot, and not by the stop_loop that a release, an emergency stop,
\* apply_binding or shutdown runs on the entry of the slot.
C19_PassThroughNeverBlocks ==
    [][ \A t \in Threads, k \in Keys :
          (/\ thr[t].key = k
           /\ thr[t].slot.pass_through
           /\ thr[t].pc \in {"sl_arm", "st_join"}
           /\ thr'[t].pc # thr[t].pc)
          => /\ blockCalls'[k] = blockCalls[k]
             /\ unblockCalls'[k] = unblockCalls[k] ]_vars

C19_Witness ==
    \E t \in Threads :
        /\ thr[t].pc = "st_join"
        /\ thr[t].op \in {"emergency", "apply", "shutdown"}
        /\ thr[t].slot.pass_through
        /\ blockCalls[thr[t].key] = 0

\* The registration loop of thread t handles a slot in this step.
RegistersSlot(t) == thr[t].pc = "rg_slot" /\ thr'[t] # thr[t]

\* C20: a slot with enabled = false is never registered or armed.  The
\* registration loop installs no hook and records no handle for it; after
\* start(), with no config applied since, a trigger key that only disabled
\* slots use has no hook at the backend; a press of a key without an
\* enabled slot returns without a loop thread, a block_key call or an
\* entry; and the slot of every arming is an enabled one.
C20_DisabledNeverRegistered ==
    [][ /\ \A t \in Threads :
             (RegistersSlot(t) /\ ~thr[t].slots[thr[t].idx].enabled)
             => UNCHANGED << hooksPress, hooksRelease, press_handles,
                             release_handles >>
        /\ (life = "started" /\ nCtl = 0 /\ nFaults = 0)
           => \A k \in Keys :
                 ~EnabledIn(config, k)
                 => hooksPress[k] = 0 /\ hooksRelease[k] = 0
        /\ \A t \in Threads, k \in Keys :
             (PressServed(t) /\ thr[t].key = k /\ ~EnabledIn(config, k))
             => /\ thr'[t].pc = "idle"
                /\ UNCHANGED << slot_workers, workers, nArmed, BlockVars >>
        /\ \A t \in Threads :
             (thr[t].pc = "sl_arm" /\ thr'[t].pc # "sl_arm")
             => /\ thr[t].slot.enabled
                /\ nArmed' = nArmed + 1
                /\ workers'[nArmed'].output = thr[t].slot.output_key ]_vars

C20_Witness ==
    /\ config = CfgB
    /\ hooksPress["x"] = 1
    /\ \E t \in Threads :
          /\ thr[t].pc = "rg_slot"
          /\ thr[t].slots = CfgB
          /\ ~thr[t].slots[thr[t].idx].enabled

\* Loop thread w ends by itself inside an iteration: press_and_release
\* raised (or is_pressed was false).
EndsInIteration(w) == workers[w].pc = "body" /\ workers'[w].pc = "dead"

\* The step leaves every loop thread but w, and every entry but the one of
\* key k, as it was, and blocks nothing.
OthersUntouched(w, k) ==
    /\ \A w2 \in WorkerIds \ {w} : workers'[w2] = workers[w2]
    /\ \A k2 \in Keys \ {k} :
          /\ Has(slot_workers', k2) = Has(slot_workers, k2)
          /\ Has(slot_workers, k2)
             => Get(slot_workers', k2) = Get(slot_workers, k2)
          /\ unblockCalls'[k2] = unblockCalls[k2]
    /\ UNCHANGED << blockCalls, blockOk >>

\* C21: a press_and_release failure inside one loop ends only that runner:
\* the loop thread ends without a further pulse and its teardown runs (the
\* entry is removed and a blocked key is unblocked), while the loop
\* threads, entries and blocked state of the other trigger keys stay as
\* they were.
C21_EmitFailureEndsOneRunner ==
    [][ \A w \in WorkerIds, k \in Keys :
          (EndsInIteration(w) /\ workers[w].key = k /\ nFaults = 0)
          => /\ OthersUntouched(w, k)
             /\ ~workers'[w].running
             /\ \A i \in DOMAIN slot_workers :
                   (slot_workers[i].worker = w /\ ~StopInFlight(w))
                   => /\ ~Has(slot_workers', k)
                      /\ unblockCalls'[k] = unblockCalls[k]
                                            + Unblocks(slot_workers[i].blocked)
      ]_vars

\* The part of it that concerns the other runners only.
EmitFailureIsolated ==
    [][ \A w \in WorkerIds, k \in Keys :
          (EndsInIteration(w) /\ workers[w].key = k)
          => OthersUntouched(w, k) /\ ~workers'[w].running ]_vars

\* C22: in start_loop for a slot with pass_through = false a failing
\* block_key does not prevent the arming: the loop thread is started with
\* its stop flag unset and the slot's output key, the entry records blocked
\* as false, and the stop_loop that disarms it issues no unblock_key.
C22_BlockFailureStillArms ==
    [][ /\ \A t \in Threads, k \in Keys :
             (/\ thr[t].pc = "sl_arm" /\ thr'[t].pc # "sl_arm"
              /\ thr[t].key = k
              /\ ~thr[t].slot.pass_through
              /\ blockOk'[k] = blockOk[k])
             => /\ blockCalls'[k] = blockCalls[k] + 1
                /\ nArmed' = nArmed + 1
                /\ workers'[nArmed'].pc = "top"
                /\ workers'[nArmed'].running /\ ~workers'[nArmed'].stop
                /\ workers'[nArmed'].output = thr[t].slot.output_key
                /\ \E i \in DOMAIN slot_workers' :
                      /\ slot_workers'[i].key = k
                      /\ slot_workers'[i].worker = nArmed'
                      /\ ~slot_workers'[i].blocked
        /\ \A t \in Threads, k \in Keys :
             (thr[t].pc = "st_lock" /\ thr'[t].pc = "st_join"
              /\ thr[t].key = k)
             => \E i \in DOMAIN slot_workers :
                   /\ slot_workers[i].key = k
                   /\ thr'[t].blocked = slot_workers[i].blocked
        /\ \A t \in Threads :
             (thr[t].pc = "st_join" /\ thr'[t].pc # "st_join"
              /\ ~thr[t].blocked)
             => unblockCalls' = unblockCalls ]_vars

C22_Witness ==
    \E t \in Threads :
        /\ thr[t].pc = "st_join"
        /\ ~thr[t].slot.pass_through
        /\ ~thr[t].blocked
        /\ blockCalls[thr[t].key] = 1
        /\ blockOk[thr[t].key] = 0
        /\ workers[thr[t].w].output = thr[t].slot.output_key

\* The trigger keys of cfg whose hook pair is recorded after the step.
RegisteredOf(cfg) ==
    {k \in HookedKeys(cfg) : k \in press_handles' /\ k \in release_handles'}

\* C23: a backend error during apply is fatal only when no binding could
\* be registered.  apply_binding does not return normally with a new
\* config of which the backend refused the hooks of every enabled slot (it
\* fails and the previous config is restored); when it returns normally at
\* least one enabled slot of the new config is registered and the new
\* config is the active one.
C23_ApplyFailsOnlyIfNothingRegisters ==
    [][ \A t \in Threads :
          (/\ thr[t].op \in {"apply", "reload"}
           /\ thr[t].pc = "rg_slot"
           /\ thr[t].phase = "apply"
           /\ Returns(t)
           /\ lastRet'.res \in {"ok", "true"}
           /\ ~HasDuplicate(thr[t].prev)
           /\ HookedKeys(thr[t].new) # {})
          => /\ RegisteredOf(thr[t].new) # {}
             /\ config' = thr[t].new ]_vars

\* C24: at most one emergency-stop hotkey is registered at the backend at
\* any time, whatever sequence of register, apply_bindings and clear calls
\* is made: registering further bindings or re-applying never adds a second
\* one.
C24_OneEmergencyHotkey == hotkeys <= 1

C24_Witness ==
    /\ hotkeys = 1
    /\ Len(_handles) = 2
    /\ nUi >= 2
    /\ \A i \in DOMAIN _handles : _handles[i].runner \in onPress

\* The apply_bindings call on UiThread returns in this step.
ApplyBindingsReturns ==
    /\ calls[UiThread].op = "apply_bindings"
    /\ calls'[UiThread].pc = "idle"

C26_BurstBounded == burst <= 2

\* C27: on a clock where sleep advances time by exactly the requested
\* amount (no stall), a loop that has ended after the trigger was held for
\* holdMs milliseconds has emitted floor(holdMs / interval) pulses, give or
\* take one.
C27_PulseCountWithinOne ==
    (tPc = "done" /\ nStalls = 0) =>
        /\ pulses + 1 >= holdMs \div tInterval
        /\ pulses <= (holdMs \div tInterval) + 1

\* A hold of several intervals has ended with several pulses and no stall.
C27_Witness ==
    /\ tPc = "done"
    /\ nStalls = 0
    /\ holdMs >= 3 * tInterval
    /\ pulses >= 3

\* Every slot has an interval in range and mapped (non-empty) keys.
ValidConfig(cfg) ==
    \A i \in 1..Len(cfg) :
        /\ MIN_INTERVAL_MS <= cfg[i].interval_ms
        /\ cfg[i].interval_ms <= MAX_INTERVAL_MS
        /\ cfg[i].trigger_key \notin {"", Invalid}
        /\ cfg[i].output_key \notin {"", Invalid}

\* The configs held by files whose slots are all valid.
WholeFileConfigs == { load_config(doc).value : doc \in ValidDocs }

\* C28: whatever the config file holds when reload_config reads it, every
\* step leaves an active config whose slots all have an interval within
\* 1..1000 and non-empty keys; contents with any invalid slot are rejected
\* as a whole: the active config only ever changes to a config of a file
\* without invalid slot (or to one a caller passed to apply_binding).
C28_ActiveConfigAlwaysValid ==
    [][ /\ ValidConfig(config')
        /\ config' # config => config' \in Configs \cup WholeFileConfigs ]_vars

\* A config read from the file, with a slot of 25 ms, has become the
\* active one.
C28_Witness ==
    /\ lastRet = [op |-> "reload", res |-> "true", why |-> "apply"]
    /\ Len(config) = 2
    /\ \E i \in 1..Len(config) : config[i].interval_ms = 25
    /\ \A t \in Threads : thr[t].op \notin {"apply", "reload"}

\* C29: the loop tests is_pressed in every iteration, so once the trigger
\* is no longer pressed the loop thread ends even though no release event
\* arrives, and from the first iteration that finds the trigger released no
\* pulse is emitted.
C29_EndsWithoutReleaseEvent ==
    /\ (tNow >= holdMs) ~> (tPc = "done")
    /\ [][ tNow >= holdMs => pulses' = pulses ]_vars

\* The loop has ended on is_pressed alone after it had emitted.
C29_Witness ==
    /\ tPc = "done"
    /\ holdMs >= 2
    /\ pulses >= 1
    /\ tNow >= holdMs

C31_StopLoopJoinIsBounded ==
    [][ \A t \in Threads :
          thr[t].pc = "st_join" =>
             /\ lockOwner # t
             /\ ENABLED StopJoin(t)
             /\ (StopJoin(t) /\ Alive(thr[t].w)) =>
                   /\ thr'[t].pc = "st_del"
                   /\ unblockCalls'[thr[t].key] =
                         unblockCalls[thr[t].key]
                            + (IF thr[t].blocked THEN 1 ELSE 0) ]_vars

\* A join has timed out on a live loop thread of a blocked key and the
\* caller is about to remove the entry.
C31_Witness ==
    \E t \in Threads :
        /\ thr[t].pc = "st_del"
        /\ thr[t].timedOut
        /\ thr[t].blocked
        /\ Alive(thr[t].w)
        /\ unblockCalls[thr[t].key] > 0

\* No call is running and no loop thread of a runner is alive.
RunnersQuiet ==
    /\ \A c \in Callers : calls[c].pc = "idle"
    /\ \A l \in LoopIds : loops[l].pc \in {"unborn", "dead"}

\* C32: in AutoFireBindingRunner every start() that blocked the trigger
\* key is matched by exactly one unblock_key call, made by stop() or by
\* the loop's own teardown: the unblock calls of a key never exceed its
\* successful blocks, and once everything has ended they are equal.
C32_UnblockExactlyOnce ==
    \A k \in Keys :
        /\ unblockCalls[k] <= blockOk[k]
        /\ RunnersQuiet => unblockCalls[k] = blockOk[k]

\* What the engine holds for trigger key k: its runtime entry, its loop
\* threads with their stop flags, and the block and unblock calls made
\* for it.
StateOfKey(k) ==
    << IF Has(slot_workers, k) THEN << Get(slot_workers, k) >> ELSE << >>,
       { << w, workers[w].pc, workers[w].stop, workers[w].running >> :
            w \in { v \in WorkerIds : workers[v].key = k } },
       blockCalls[k], blockOk[k], unblockCalls[k] >>

\* C33: runners of distinct trigger keys are independent.  A step of a
\* press, a release or a stop_loop for key k1, and a step of a loop thread
\* of k1, leave the entry, the loop threads, the stop flags and the
\* blocked state of every other key as they were; and a loop thread can
\* always take its next step, whatever the other loops and callers do.
C33_KeysAreIndependent ==
    [][ /\ \A t \in Threads :
             (\/ PressBegin(t) \/ StartLoopArm(t)
              \/ StopBegin(t) \/ StopJoin(t) \/ StopDel(t))
             => \A k2 \in Keys \ {thr[t].key} :
                   StateOfKey(k2)' = StateOfKey(k2)
        /\ \A w \in WorkerIds :
             (LoopTop(w) \/ LoopBody(w))
             => \A k2 \in Keys \ {workers[w].key} :
                   StateOfKey(k2)' = StateOfKey(k2)
        /\ \A w \in WorkerIds :
             /\ workers[w].pc = "top" => ENABLED LoopTop(w)
             /\ workers[w].pc = "body" => ENABLED LoopBody(w) ]_vars

\* Two keys are armed with live loops, and a stop_loop for one of them is
\* about to remove its entry.
C33_Witness ==
    \E t \in Threads, k2 \in Keys :
        /\ thr[t].pc = "st_del"
        /\ k2 # thr[t].key
        /\ Has(slot_workers, thr[t].key)
        /\ Has(slot_workers, k2)
        /\ Alive(Get(slot_workers, k2).worker)

\* C34: apply_binding with the active config, and reload_config of a file
\* that holds the active config, do nothing: the config, the hooks and
\* their handles, the worker map, the loop threads and the blocked keys
\* stay as they are and no other thread's call is touched.  (Every call
\* of a control operation counts in nCtl.)
C34_EqualConfigIsNoOp ==
    [][ nCtl' # nCtl =>
          /\ \A t \in Threads :
                CallApply(t, config)
                => /\ lastRet' = [op |-> "apply", res |-> "noop", why |-> "noop"]
                   /\ UNCHANGED << config, HandleVars, BackendVars, BlockVars,
                                   slot_workers, workers, thr >>
          /\ \A t \in Threads, doc \in ValidDocs :
                (load_config(doc).value = config /\ CallReload(t, doc))
                => /\ lastRet' = [op |-> "reload", res |-> "false", why |-> "noop"]
                   /\ UNCHANGED << config, HandleVars, BackendVars, BlockVars,
                                   slot_workers, workers, thr >> ]_vars

\* A reload of the unchanged config has been answered while a key was
\* armed and blocked, with its loop alive and its stop flag unset.
C34_Witness ==
    /\ lastRet = [op |-> "reload", res |-> "false", why |-> "noop"]
    /\ \E k \in Keys :
          /\ IsArmed(k) /\ Get(slot_workers, k).blocked
          /\ Alive(Get(slot_workers, k).worker)
          /\ ~workers[Get(slot_workers, k).worker].stop
          /\ k \in press_handles /\ k \in release_handles

\* C35: a loop thread of an earlier arming that outlived stop() never
\* resumes after a later start() of the same runner: the stop request
\* that a live loop thread has to observe stays set for as long as that
\* thread lives, so that the old thread ends at its next test and at most
\* one loop thread of the runner emits.
C35_OldLoopStaysStopped ==
    [][ \A l \in LoopIds :
          (/\ loops[l].pc \in {"top", "body"}
           /\ runners[loops[l].runner].stop_request
           /\ loops'[l].pc \in {"top", "body"})
          => runners'[loops[l].runner].stop_request ]_vars

\* C36: every hook the engine installs at the backend is recorded in its
\* handle maps in the same call, so that _unregister_hooks can remove it:
\* no step installs a press or release hook of a key and leaves the key
\* out of the map of that kind.
C36_InstalledHooksAreTracked ==
    [][ \A k \in Keys :
          /\ hooksPress'[k] > hooksPress[k] => k \in press_handles'
          /\ hooksRelease'[k] > hooksRelease[k] => k \in release_handles' ]_vars

\* C37: in the AutoFireEngine of the UI at most one _autofire_loop thread
\* per trigger key is emitting at any time.
C37_OneEmittingLoopPerKey ==
    \A l1, l2 \in EngineLoopIds :
        (/\ l1 # l2
         /\ engineLoops[l1].pc = "emit"
         /\ engineLoops[l2].pc = "emit")
        => engineLoops[l1].key # engineLoops[l2].key

\* C38: emergency_stop changes only the state of the runners: no step of
\* a thread that runs emergency_stop changes the active config, the
\* press/release hooks and their handles, or the emergency hotkey; so a
\* press delivered afterwards arms the slot again.
C38_EmergencyKeepsHooks ==
    [][ \A t \in Threads :
          (/\ thr'[t] # thr[t]
           /\ thr[t].op = "emergency" \/ thr'[t].op = "emergency")
          => UNCHANGED << config, HandleVars, BackendVars >> ]_vars

\* A key is armed again, with a live loop and its hooks in place, while a
\* loop thread that an emergency stop had stopped is still known.
C38_Witness ==
    \E w1, w2 \in WorkerIds :
        /\ w1 < w2
        /\ workers[w1].stoppedBy = "emergency"
        /\ workers[w2].key = workers[w1].key
        /\ Alive(w2) /\ ~workers[w2].stop
        /\ IsArmed(workers[w2].key)
        /\ Get(slot_workers, workers[w2].key).worker = w2
        /\ hooksPress[workers[w2].key] > 0
        /\ hotkeys > 0

\* The registry holds trigger k under the binding id id.
HeldBySame(k, id) ==
    \E i \in DOMAIN _handles :
        _handles[i].key = k /\ _handles[i].binding.id = id

\* C39: register(binding) for a trigger key that is already registered
\* under the same binding id returns at once: no press or release hook is
\* added, no runner is created, and the handle and the emergency hotkey
\* stay as they were.
C39_RegisterIsIdempotent ==
    [][ (/\ RegisterStep
         /\ HeldBySame(regRet'.binding.trigger_key, regRet'.binding.id))
        => /\ regRet'.res = "returned"
           /\ UNCHANGED << _handles, runners, nRunners, onPress, onRelease,
                           hotkeys, _emergency_hotkey_id, loops >> ]_vars

\* The same binding was registered again while its runner was running.
C39_Witness ==
    /\ regRet.res = "returned"
    /\ HeldBySame(regRet.binding.trigger_key, regRet.binding.id)
    /\ \E l \in LoopIds :
          /\ loops[l].pc \in {"top", "body"}
          /\ runners[loops[l].runner].trigger_key = regRet.binding.trigger_key
          /\ runners[loops[l].runner].running

====
